---- MODULE Spec2Model ----
(***************************************************************************)
(* A model of the storage core of etcd: the replicated log (raftLog over   *)
(* an unstable tail and a MemoryStorage), and the write-ahead log.         *)
(* Every operator is translated from the Go source it is named after.      *)
(***************************************************************************)
EXTENDS Integers, Sequences, FiniteSets, TLC

VARIABLES
  raftLog,   \* the raftLog of one node, with its unstable tail and its storage
  logOp,     \* the last call recorded on the log, with its arguments and results
  disk,      \* the segment files of the WAL directory, in name order
  wal,       \* the open WAL handle
  walRes,    \* what the last ReadAll returned
  saved,     \* what was handed to Save and SaveSnapshot and is not lost, in order
  walCount,  \* the number of saves and of crashes so far
  heap,      \* the bucket buffers of the backend: a buffer is its index
  batchTx,   \* the buffered batch transaction and its writing transaction
  readTx,    \* the shared read transaction: its read buffer and store transaction
  txReadBufferCache, \* the cached copy of the read buffer and its version
  bolt,      \* the store: what is committed and its read-only transactions
  readers,   \* the concurrent read transactions, in order of creation
  beOps,     \* the number of puts and deletes so far
  keyIndex,  \* the keyIndex of one key
  keyIndexOp, \* the last call made on the keyIndex, with its arguments and result
  keyIndexCount, \* the number of puts and tombstones so far
  node,      \* the raftNode that serves the Ready of the log: its place in the loop
  threads,   \* the goroutines that call the backend: the call of each and how far it is
  cutting,   \* a cut of the WAL on its way: its place, the WAL, the tail and the new segment
  fp         \* the filePipeline: its goroutine, its channels and its callers

logVars == <<raftLog>>
walVars == <<disk, wal, walRes, saved, walCount>>
backendVars == <<heap, batchTx, readTx, txReadBufferCache, bolt, readers, beOps>>
keyIndexVars == <<keyIndex, keyIndexOp, keyIndexCount>>
nodeVars == <<node>>
lockVars == <<threads>>
cutVars == <<cutting>>
fpVars == <<fp>>
notLog == <<logOp, walVars, backendVars, keyIndexVars, nodeVars, lockVars, cutVars, fpVars>>
notWal == <<raftLog, logOp, backendVars, keyIndexVars, nodeVars, lockVars, cutVars, fpVars>>
notBackend == <<raftLog, logOp, walVars, keyIndexVars, nodeVars, lockVars, cutVars, fpVars>>
notKeyIndex == <<raftLog, logOp, walVars, backendVars, nodeVars, lockVars, cutVars, fpVars>>
notCut == <<raftLog, logOp, walVars, backendVars, keyIndexVars, nodeVars, lockVars, fpVars>>
notFp == <<raftLog, logOp, walVars, backendVars, keyIndexVars, nodeVars, lockVars, cutVars>>

(***************************************************************************)
(* Bounds of the replicated-log model.                                     *)
(***************************************************************************)
MaxIndex == 3
MaxTerm == 2
MaxLen == 2

Min(a, b) == IF a < b THEN a ELSE b
Max(a, b) == IF a > b THEN a ELSE b

\* pb.Entry, reduced to the two fields the log looks at.
Entry(i, t) == [Index |-> i, Term |-> t]

\* Entries with consecutive indices a, a+1, ... and the given terms.
Ents(a, terms) == [k \in 1..Len(terms) |-> Entry(a + k - 1, terms[k])]

TermSeqs == UNION {[1..n -> 1..MaxTerm] : n \in 0..MaxLen}

(***************************************************************************)
(* MemoryStorage: ents[1] is the dummy entry of the latest snapshot.       *)
(***************************************************************************)
NewMemoryStorage == [snapshot |-> Entry(0, 0), ents |-> <<Entry(0, 0)>>]

msFirstIndex(ms) == ms.ents[1].Index + 1

msLastIndex(ms) == ms.ents[1].Index + Len(ms.ents) - 1

msTerm(ms, i) ==
  LET offset == ms.ents[1].Index IN
  IF i < offset THEN [t |-> 0, err |-> "ErrCompacted"]
  ELSE IF i - offset >= Len(ms.ents) THEN [t |-> 0, err |-> "ErrUnavailable"]
  ELSE [t |-> ms.ents[i - offset + 1].Term, err |-> "nil"]

\* Entries that takes the dummy entry for a stored one.
msEntriesBelowDummy(ms, lo, hi) ==
  LET offset == ms.ents[1].Index IN
  IF lo < offset THEN [ents |-> <<>>, err |-> "ErrCompacted", panic |-> FALSE]
  ELSE IF hi > msLastIndex(ms) + 1 THEN [ents |-> <<>>, err |-> "nil", panic |-> TRUE]
  ELSE IF Len(ms.ents) = 1 THEN [ents |-> <<>>, err |-> "ErrUnavailable", panic |-> FALSE]
  ELSE [ents |-> SubSeq(ms.ents, lo - offset + 1, hi - offset), err |-> "nil", panic |-> FALSE]

\* Entries(lo, hi, noLimit): the error, or the entries lo..hi-1.
msEntries(ms, lo, hi) ==
  LET offset == ms.ents[1].Index IN
  IF lo <= offset THEN [ents |-> <<>>, err |-> "ErrCompacted", panic |-> FALSE]
  ELSE IF hi > msLastIndex(ms) + 1 THEN [ents |-> <<>>, err |-> "nil", panic |-> TRUE]
  ELSE IF Len(ms.ents) = 1 THEN [ents |-> <<>>, err |-> "ErrUnavailable", panic |-> FALSE]
  ELSE [ents |-> SubSeq(ms.ents, lo - offset + 1, hi - offset), err |-> "nil", panic |-> FALSE]

msApplySnapshot(ms, snap) ==
  IF ms.snapshot.Index >= snap.Index
  THEN [ms |-> ms, err |-> "ErrSnapOutOfDate"]
  ELSE [ms |-> [snapshot |-> snap, ents |-> <<Entry(snap.Index, snap.Term)>>], err |-> "nil"]

msCreateSnapshot(ms, i) ==
  LET offset == ms.ents[1].Index IN
  IF i <= ms.snapshot.Index
  THEN [ms |-> ms, snap |-> Entry(0, 0), err |-> "ErrSnapOutOfDate", panic |-> FALSE]
  ELSE IF i > msLastIndex(ms) \/ i < offset
  THEN [ms |-> ms, snap |-> Entry(0, 0), err |-> "nil", panic |-> TRUE]
  ELSE LET s == Entry(i, ms.ents[i - offset + 1].Term) IN
       [ms |-> [ms EXCEPT !.snapshot = s], snap |-> s, err |-> "nil", panic |-> FALSE]

msCompact(ms, compactIndex) ==
  LET offset == ms.ents[1].Index
      i == compactIndex - offset IN
  IF compactIndex <= offset THEN [ms |-> ms, err |-> "ErrCompacted", panic |-> FALSE]
  ELSE IF compactIndex > msLastIndex(ms) THEN [ms |-> ms, err |-> "nil", panic |-> TRUE]
  ELSE [ms |-> [ms EXCEPT !.ents =
                  <<Entry(ms.ents[i + 1].Index, ms.ents[i + 1].Term)>>
                  \o SubSeq(ms.ents, i + 2, Len(ms.ents))],
        err |-> "nil", panic |-> FALSE]

msAppend(ms, entries) ==
  IF Len(entries) = 0 THEN [ms |-> ms, panic |-> FALSE]
  ELSE
    LET first == msFirstIndex(ms)
        last == entries[1].Index + Len(entries) - 1 IN
    IF last < first THEN [ms |-> ms, panic |-> FALSE]
    ELSE
      LET es == IF first > entries[1].Index
                THEN SubSeq(entries, first - entries[1].Index + 1, Len(entries))
                ELSE entries
          offset == es[1].Index - ms.ents[1].Index IN
      IF Len(ms.ents) > offset
      THEN [ms |-> [ms EXCEPT !.ents = SubSeq(ms.ents, 1, offset) \o es], panic |-> FALSE]
      ELSE IF Len(ms.ents) = offset
      THEN [ms |-> [ms EXCEPT !.ents = ms.ents \o es], panic |-> FALSE]
      ELSE [ms |-> ms, panic |-> TRUE]

(***************************************************************************)
(* unstable: snapshot is <<>> (nil) or <<s>>; entries[k] has log position  *)
(* offset + k - 1.                                                         *)
(***************************************************************************)
maybeFirstIndex(u) ==
  IF u.snapshot # <<>> THEN [i |-> u.snapshot[1].Index + 1, ok |-> TRUE]
  ELSE [i |-> 0, ok |-> FALSE]

maybeLastIndex(u) ==
  IF Len(u.entries) # 0 THEN [i |-> u.offset + Len(u.entries) - 1, ok |-> TRUE]
  ELSE IF u.snapshot # <<>> THEN [i |-> u.snapshot[1].Index, ok |-> TRUE]
  ELSE [i |-> 0, ok |-> FALSE]

maybeTerm(u, i) ==
  IF i < u.offset
  THEN IF u.snapshot # <<>> /\ u.snapshot[1].Index = i
       THEN [t |-> u.snapshot[1].Term, ok |-> TRUE]
       ELSE [t |-> 0, ok |-> FALSE]
  ELSE LET last == maybeLastIndex(u) IN
       IF ~last.ok THEN [t |-> 0, ok |-> FALSE]
       ELSE IF i > last.i THEN [t |-> 0, ok |-> FALSE]
       ELSE [t |-> u.entries[i - u.offset + 1].Term, ok |-> TRUE]

\* stableTo that does not compare the term.
unstableStableToAnyTerm(u, i, t) ==
  LET gt == maybeTerm(u, i) IN
  IF gt.ok /\ i >= u.offset
  THEN [u EXCEPT !.entries = SubSeq(u.entries, i + 1 - u.offset + 1, Len(u.entries)),
                 !.offset = i + 1]
  ELSE u

unstableStableTo(u, i, t) ==
  LET gt == maybeTerm(u, i) IN
  IF ~gt.ok THEN u
  ELSE IF gt.t = t /\ i >= u.offset
  THEN [u EXCEPT !.entries = SubSeq(u.entries, i + 1 - u.offset + 1, Len(u.entries)),
                 !.offset = i + 1]
  ELSE u

unstableStableSnapTo(u, i) ==
  IF u.snapshot # <<>> /\ u.snapshot[1].Index = i
  THEN [u EXCEPT !.snapshot = <<>>]
  ELSE u

unstableRestore(u, s) ==
  [offset |-> s.Index + 1, entries |-> <<>>, snapshot |-> <<s>>]

\* mustCheckOutOfBounds of unstable.slice: TRUE when the call panics.
unstableSlicePanics(u, lo, hi) ==
  lo > hi \/ lo < u.offset \/ hi > u.offset + Len(u.entries)

unstableSlice(u, lo, hi) == SubSeq(u.entries, lo - u.offset + 1, hi - u.offset)

\* truncateAndAppend that keeps its offset when it replaces the entries.
truncateAndAppendKeepingOffset(u, ents) ==
  LET after == ents[1].Index IN
  IF after = u.offset + Len(u.entries)
  THEN [u |-> [u EXCEPT !.entries = u.entries \o ents], panic |-> FALSE]
  ELSE IF after <= u.offset
  THEN [u |-> [u EXCEPT !.entries = ents], panic |-> FALSE]
  ELSE IF unstableSlicePanics(u, u.offset, after)
  THEN [u |-> u, panic |-> TRUE]
  ELSE [u |-> [u EXCEPT !.entries = unstableSlice(u, u.offset, after) \o ents],
        panic |-> FALSE]

\* truncateAndAppend keeping one entry too many when it truncates.
truncateAndAppendOffByOne(u, ents) ==
  LET after == ents[1].Index IN
  IF after = u.offset + Len(u.entries)
  THEN [u |-> [u EXCEPT !.entries = u.entries \o ents], panic |-> FALSE]
  ELSE IF after <= u.offset
  THEN [u |-> [u EXCEPT !.offset = after, !.entries = ents], panic |-> FALSE]
  ELSE IF unstableSlicePanics(u, u.offset, after + 1)
  THEN [u |-> u, panic |-> TRUE]
  ELSE [u |-> [u EXCEPT !.entries = unstableSlice(u, u.offset, after + 1) \o ents],
        panic |-> FALSE]

truncateAndAppend(u, ents) ==
  LET after == ents[1].Index IN
  IF after = u.offset + Len(u.entries)
  THEN [u |-> [u EXCEPT !.entries = u.entries \o ents], panic |-> FALSE]
  ELSE IF after <= u.offset
  THEN [u |-> [u EXCEPT !.offset = after, !.entries = ents], panic |-> FALSE]
  ELSE IF unstableSlicePanics(u, u.offset, after)
  THEN [u |-> u, panic |-> TRUE]
  ELSE [u |-> [u EXCEPT !.entries = unstableSlice(u, u.offset, after) \o ents],
        panic |-> FALSE]

(***************************************************************************)
(* raftLog: [storage, unstable, committed, applied].                       *)
(***************************************************************************)
newLog(storage) ==
  [storage |-> storage,
   unstable |-> [offset |-> msLastIndex(storage) + 1, entries |-> <<>>, snapshot |-> <<>>],
   committed |-> msFirstIndex(storage) - 1,
   applied |-> msFirstIndex(storage) - 1]

firstIndex(l) ==
  LET f == maybeFirstIndex(l.unstable) IN
  IF f.ok THEN f.i ELSE msFirstIndex(l.storage)

lastIndex(l) ==
  LET f == maybeLastIndex(l.unstable) IN
  IF f.ok THEN f.i ELSE msLastIndex(l.storage)

term(l, i) ==
  LET dummyIndex == firstIndex(l) - 1 IN
  IF i < dummyIndex \/ i > lastIndex(l) THEN [t |-> 0, err |-> "nil"]
  ELSE LET ut == maybeTerm(l.unstable, i) IN
       IF ut.ok THEN [t |-> ut.t, err |-> "nil"]
       ELSE msTerm(l.storage, i)

matchTerm(l, i, t) ==
  LET r == term(l, i) IN
  IF r.err # "nil" THEN FALSE ELSE r.t = t

zeroTermOnErrCompacted(r) ==
  IF r.err = "nil" THEN [t |-> r.t, panic |-> FALSE]
  ELSE IF r.err = "ErrCompacted" THEN [t |-> 0, panic |-> FALSE]
  ELSE [t |-> 0, panic |-> TRUE]

\* The loop of findConflictByTerm: index goes down while the term at it is
\* greater than term and term() gives no error.
RECURSIVE findConflictByTermFrom(_, _, _)
findConflictByTermFrom(l, index, t) ==
  LET r == term(l, index) IN
  IF r.t <= t \/ r.err # "nil" THEN index
  ELSE findConflictByTermFrom(l, index - 1, t)

\* findConflictByTerm that never goes below the index it is given.
findConflictByTermAtIndex(l, index, t) == index

findConflictByTerm(l, index, t) ==
  IF index > lastIndex(l) THEN index
  ELSE findConflictByTermFrom(l, index, t)

findConflict(l, ents) ==
  LET bad == {k \in 1..Len(ents) : ~matchTerm(l, ents[k].Index, ents[k].Term)} IN
  IF bad = {} THEN 0
  ELSE ents[CHOOSE k \in bad : \A j \in bad : k <= j].Index

\* commitTo without the "never decrease commit" test.
commitToDecreasing(l, tocommit) ==
  IF lastIndex(l) < tocommit
  THEN [l |-> l, panic |-> TRUE]
  ELSE [l |-> [l EXCEPT !.committed = tocommit], panic |-> FALSE]

commitTo(l, tocommit) ==
  IF l.committed < tocommit
  THEN IF lastIndex(l) < tocommit
       THEN [l |-> l, panic |-> TRUE]
       ELSE [l |-> [l EXCEPT !.committed = tocommit], panic |-> FALSE]
  ELSE [l |-> l, panic |-> FALSE]

\* appliedTo without the range check against committed.
appliedToUnchecked(l, i) ==
  IF i = 0 THEN [l |-> l, panic |-> FALSE]
  ELSE IF i < l.applied THEN [l |-> l, panic |-> TRUE]
  ELSE [l |-> [l EXCEPT !.applied = i], panic |-> FALSE]

appliedTo(l, i) ==
  IF i = 0 THEN [l |-> l, panic |-> FALSE]
  ELSE IF l.committed < i \/ i < l.applied THEN [l |-> l, panic |-> TRUE]
  ELSE [l |-> [l EXCEPT !.applied = i], panic |-> FALSE]

\* append without the check against committed.
appendUnchecked(l, ents) ==
  IF Len(ents) = 0 THEN [l |-> l, ret |-> lastIndex(l), panic |-> FALSE]
  ELSE LET r == truncateAndAppend(l.unstable, ents) IN
       IF r.panic THEN [l |-> l, ret |-> 0, panic |-> TRUE]
       ELSE LET l2 == [l EXCEPT !.unstable = r.u] IN
            [l |-> l2, ret |-> lastIndex(l2), panic |-> FALSE]

append(l, ents) ==
  IF Len(ents) = 0 THEN [l |-> l, ret |-> lastIndex(l), panic |-> FALSE]
  ELSE IF ents[1].Index - 1 < l.committed THEN [l |-> l, ret |-> 0, panic |-> TRUE]
  ELSE LET r == truncateAndAppend(l.unstable, ents) IN
       IF r.panic THEN [l |-> l, ret |-> 0, panic |-> TRUE]
       ELSE LET l2 == [l EXCEPT !.unstable = r.u] IN
            [l |-> l2, ret |-> lastIndex(l2), panic |-> FALSE]

\* maybeAppend without the check of the conflicting index against committed.
maybeAppendUnchecked(l, index, logTerm, committed, ents) ==
  IF matchTerm(l, index, logTerm)
  THEN LET lastnewi == index + Len(ents)
           ci == findConflict(l, ents)
           a == IF ci = 0 THEN [l |-> l, ret |-> 0, panic |-> FALSE]
                ELSE appendUnchecked(l, SubSeq(ents, ci - index, Len(ents)))
           c == commitTo(a.l, Min(committed, lastnewi)) IN
       IF a.panic \/ c.panic
       THEN [l |-> l, ret |-> 0, ok |-> FALSE, panic |-> TRUE]
       ELSE [l |-> c.l, ret |-> lastnewi, ok |-> TRUE, panic |-> FALSE]
  ELSE [l |-> l, ret |-> 0, ok |-> FALSE, panic |-> FALSE]

maybeAppend(l, index, logTerm, committed, ents) ==
  IF matchTerm(l, index, logTerm)
  THEN LET lastnewi == index + Len(ents)
           ci == findConflict(l, ents)
           a == IF ci = 0 THEN [l |-> l, panic |-> FALSE]
                ELSE IF ci <= l.committed THEN [l |-> l, panic |-> TRUE]
                ELSE LET offset == index + 1
                         r == append(l, SubSeq(ents, ci - offset + 1, Len(ents))) IN
                     [l |-> r.l, panic |-> r.panic]
       IN IF a.panic THEN [l |-> a.l, ret |-> 0, ok |-> FALSE, panic |-> TRUE]
          ELSE LET c == commitTo(a.l, Min(committed, lastnewi)) IN
               [l |-> c.l, ret |-> lastnewi, ok |-> ~c.panic, panic |-> c.panic]
  ELSE [l |-> l, ret |-> 0, ok |-> FALSE, panic |-> FALSE]

maybeCommit(l, maxIndex, t) ==
  LET z == zeroTermOnErrCompacted(term(l, maxIndex)) IN
  IF maxIndex > l.committed
  THEN IF z.panic THEN [l |-> l, ok |-> FALSE, panic |-> TRUE]
       ELSE IF z.t = t
       THEN LET c == commitTo(l, maxIndex) IN [l |-> c.l, ok |-> ~c.panic, panic |-> c.panic]
       ELSE [l |-> l, ok |-> FALSE, panic |-> FALSE]
  ELSE [l |-> l, ok |-> FALSE, panic |-> FALSE]

stableTo(l, i, t) == [l EXCEPT !.unstable = unstableStableTo(l.unstable, i, t)]

stableSnapTo(l, i) == [l EXCEPT !.unstable = unstableStableSnapTo(l.unstable, i)]

\* restore that sets applied as well.
restoreResettingApplied(l, s) ==
  [l EXCEPT !.committed = s.Index, !.applied = s.Index,
            !.unstable = unstableRestore(l.unstable, s)]

restore(l, s) ==
  [l EXCEPT !.committed = s.Index, !.unstable = unstableRestore(l.unstable, s)]

\* slice that tests lo == hi before it checks the bounds.
sliceEmptyFirst(l, lo, hi) ==
  LET fi == firstIndex(l)
      offset == l.unstable.offset
      none == [ents |-> <<>>, err |-> "nil", panic |-> FALSE]
      stored == IF lo < offset THEN msEntries(l.storage, lo, Min(hi, offset)) ELSE none
      uLo == Max(lo, offset) IN
  IF lo = hi THEN none
  ELSE IF lo > hi THEN [none EXCEPT !.panic = TRUE]
  ELSE IF lo < fi THEN [none EXCEPT !.err = "ErrCompacted"]
  ELSE IF hi > lastIndex(l) + 1 THEN [none EXCEPT !.panic = TRUE]
  ELSE IF stored.err = "ErrCompacted" THEN [none EXCEPT !.err = "ErrCompacted"]
  ELSE IF stored.panic \/ stored.err = "ErrUnavailable" THEN [none EXCEPT !.panic = TRUE]
  ELSE IF lo < offset /\ Len(stored.ents) < Min(hi, offset) - lo THEN stored
  ELSE IF hi > offset
       THEN IF unstableSlicePanics(l.unstable, uLo, hi)
            THEN [none EXCEPT !.panic = TRUE]
            ELSE [none EXCEPT !.ents = stored.ents \o unstableSlice(l.unstable, uLo, hi)]
       ELSE stored

\* slice(lo, hi, noLimit): the entries lo..hi-1, an error, or a panic.
slice(l, lo, hi) ==
  LET fi == firstIndex(l)
      offset == l.unstable.offset
      none == [ents |-> <<>>, err |-> "nil", panic |-> FALSE]
      stored == IF lo < offset THEN msEntries(l.storage, lo, Min(hi, offset)) ELSE none
      uLo == Max(lo, offset) IN
  IF lo > hi THEN [none EXCEPT !.panic = TRUE]
  ELSE IF lo < fi THEN [none EXCEPT !.err = "ErrCompacted"]
  ELSE IF hi > lastIndex(l) + 1 THEN [none EXCEPT !.panic = TRUE]
  ELSE IF lo = hi THEN none
  ELSE IF stored.err = "ErrCompacted" THEN [none EXCEPT !.err = "ErrCompacted"]
  ELSE IF stored.panic \/ stored.err = "ErrUnavailable" THEN [none EXCEPT !.panic = TRUE]
  ELSE IF lo < offset /\ Len(stored.ents) < Min(hi, offset) - lo THEN stored
  ELSE IF hi > offset
       THEN IF unstableSlicePanics(l.unstable, uLo, hi)
            THEN [none EXCEPT !.panic = TRUE]
            ELSE [none EXCEPT !.ents = stored.ents \o unstableSlice(l.unstable, uLo, hi)]
       ELSE stored

entries(l, i) ==
  IF i > lastIndex(l) THEN [ents |-> <<>>, err |-> "nil", panic |-> FALSE]
  ELSE slice(l, i, lastIndex(l) + 1)

\* allEntries: every entry of the log; an error of entries() does not return.
allEntries(l) ==
  LET r == entries(l, firstIndex(l)) IN
  IF r.err = "nil" /\ ~r.panic THEN [ents |-> r.ents, panic |-> FALSE]
  ELSE [ents |-> <<>>, panic |-> TRUE]


unstableEntries(l) == l.unstable.entries

\* nextEnts: the committed entries not yet applied, clipped to firstIndex; an
\* error of slice does not return.
nextEnts(l) ==
  LET off == Max(l.applied + 1, firstIndex(l)) IN
  IF l.committed + 1 > off
  THEN LET r == slice(l, off, l.committed + 1) IN
       [ents |-> r.ents, panic |-> r.panic \/ r.err # "nil"]
  ELSE [ents |-> <<>>, panic |-> FALSE]

(***************************************************************************)
(* The write-ahead log.  A record is [type, data, crc]; a frame is a record *)
(* behind its 8-byte length field, padded to a multiple of 8 bytes; a       *)
(* segment file is a sequence of frames in preallocated, zero-filled space. *)
(***************************************************************************)
minSectorSize == 512

frameSizeBytes == 8

\* The segment size, scaled down so that a few entries fill a segment (the
\* source declares it a variable so that tests can lower it).
SegmentSizeBytes == 1024

\* The marshalled size of an Entry record, payload included.
EntryBytes == 500

WalMaxIndex == 3
WalMaxOps == 2
WalMaxCrashes == 1
WalMaxOpens == 1

EmptyState == [Term |-> 0, Vote |-> 0, Commit |-> 0]

IsEmptyHardState(st) == st = EmptyState

MustSync(st, prevst, entsnum) ==
  entsnum # 0 \/ st.Vote # prevst.Vote \/ st.Term # prevst.Term

\* pbutil.MustMarshal: the bytes of a message, which tell its kind and value;
\* nil data is <<>>.
MustMarshal(kind, v) == <<[kind |-> kind, v |-> v]>>

MustUnmarshal(data) == data[1].v

Metadata == MustMarshal("metadata", 1)

\* The number that stands for the bytes of a message in the CRC.
dataCode(m) ==
  CASE m.kind = "entry" -> 100 + 10 * m.v.Index + m.v.Term
    [] m.kind = "state" -> 200 + 20 * m.v.Term + 2 * m.v.Commit + m.v.Vote
    [] m.kind = "snapshot" -> 300 + 10 * m.v.Index + m.v.Term
    [] OTHER -> 7

\* The running CRC, as a polynomial hash of the data written so far; writing
\* nil data leaves it as it is.
crcWrite(crc, data) ==
  IF data = <<>> THEN crc ELSE (crc * 31 + dataCode(data[1])) % 65521

\* The marshalled size of a record.
recordSize(rec) ==
  CASE rec.type = "entry" -> EntryBytes
    [] rec.type = "crc" -> 6
    [] OTHER -> 12

\* The 64-bit length field, as its most significant byte and its lower 56 bits.
encodeFrameSize(dataBytes) ==
  LET padBytes == (8 - (dataBytes % 8)) % 8 IN
  [lenField |-> [low |-> dataBytes, msb |-> IF padBytes # 0 THEN 128 + padBytes ELSE 0],
   padBytes |-> padBytes]

decodeFrameSize(lenField) ==
  [recBytes |-> lenField.low,
   padBytes |-> IF lenField.msb >= 128 THEN lenField.msb % 8 ELSE 0]

ZeroLen == [low |-> 0, msb |-> 0]

frameBytes(fr) ==
  LET sz == decodeFrameSize(fr.lenField) IN frameSizeBytes + sz.recBytes + sz.padBytes

\* The file offset after the last frame.
endOff(frames) ==
  IF frames = <<>> THEN 0
  ELSE frames[Len(frames)].off + frameBytes(frames[Len(frames)])

\* The sectors that the bytes [off, off + n) lie in.
sectorsOf(off, n) == (off \div minSectorSize)..((off + n - 1) \div minSectorSize)

\* A segment file: its name (seq, index), its frames, how many of them are
\* durable, a torn frame after them (<<>> or <<[frame, sectors]>>, the
\* sectors of that frame that reached the disk), and its size.
NewFile(seq, index) ==
  [seq |-> seq, index |-> index, frames |-> <<>>, synced |-> 0, torn |-> <<>>,
   size |-> SegmentSizeBytes]

fileSize(f) ==
  LET e == IF f.torn = <<>> THEN endOff(f.frames)
           ELSE f.torn[1].frame.off + frameBytes(f.torn[1].frame) IN
  Max(f.size, e)

\* encoder.encode: the record gets the running CRC and is framed at the end
\* of the file.
encode(f, crc, type, data) ==
  LET c == crcWrite(crc, data)
      rec == [type |-> type, data |-> data, crc |-> c]
      fr == [rec |-> rec, lenField |-> encodeFrameSize(recordSize(rec)).lenField,
             off |-> endOff(f.frames)] IN
  [f |-> [f EXCEPT !.frames = Append(@, fr)], crc |-> c]

\* isTornEntry: the data of the frame, split on sector boundaries, has a chunk
\* that is all zero, which is a chunk in a sector that did not reach the disk.
RECURSIVE chunkSectors(_, _)
chunkSectors(fileOff, remaining) ==
  IF remaining <= 0 THEN <<>>
  ELSE LET chunkLen == Min(minSectorSize - (fileOff % minSectorSize), remaining) IN
       <<fileOff \div minSectorSize>> \o chunkSectors(fileOff + chunkLen, remaining - chunkLen)

\* isTornEntry finding no record torn.
isTornEntryNever(nbrs, lastValidOff, dataLen, persisted) == FALSE

isTornEntry(nbrs, lastValidOff, dataLen, persisted) ==
  IF nbrs # 1 THEN FALSE
  ELSE LET chunks == chunkSectors(lastValidOff + frameSizeBytes, dataLen) IN
       \E k \in DOMAIN chunks : chunks[k] \notin persisted

NoRec == [type |-> "none", data |-> <<>>, crc |-> 0]

\* decodeRecord over the files brs = files[d.fi..], at frame d.k of the first.
RECURSIVE decodeRecord(_, _)
decodeRecord(files, d) ==
  IF d.fi > Len(files) THEN [d |-> d, rec |-> NoRec, err |-> "EOF"]
  ELSE
    LET f == files[d.fi]
        whole == d.k <= Len(f.frames)
        torn == ~whole /\ f.torn # <<>>
        fr == IF whole THEN f.frames[d.k] ELSE f.torn[1].frame
        persisted == IF whole THEN sectorsOf(fr.off, frameBytes(fr))
                     ELSE IF torn THEN f.torn[1].sectors ELSE {}
        l == IF whole \/ (torn /\ (fr.off \div minSectorSize) \in persisted)
             THEN fr.lenField ELSE ZeroLen
        sz == decodeFrameSize(l)
        crc == IF fr.rec.type # "crc" THEN crcWrite(d.crc, fr.rec.data) ELSE d.crc IN
    IF l = ZeroLen
    THEN IF d.fi + 1 > Len(files)
         THEN [d |-> [d EXCEPT !.fi = @ + 1, !.k = 1], rec |-> NoRec, err |-> "EOF"]
         ELSE decodeRecord(files, [d EXCEPT !.fi = @ + 1, !.k = 1, !.lastValidOff = 0])
    ELSE IF sz.recBytes > fileSize(f) - d.lastValidOff - sz.padBytes
    THEN [d |-> d, rec |-> NoRec, err |-> "ErrUnexpectedEOF"]
    ELSE IF torn
    THEN [d |-> d, rec |-> NoRec,
          err |-> IF isTornEntry(Len(files) - d.fi + 1, d.lastValidOff,
                                 sz.recBytes + sz.padBytes, persisted)
                  THEN "ErrUnexpectedEOF" ELSE "ErrCRCMismatch"]
    ELSE IF fr.rec.type # "crc" /\ fr.rec.crc # crc
    THEN [d |-> [d EXCEPT !.crc = crc], rec |-> NoRec, err |-> "ErrCRCMismatch"]
    ELSE [d |-> [d EXCEPT !.k = @ + 1, !.crc = crc,
                          !.lastValidOff = @ + frameSizeBytes + sz.recBytes + sz.padBytes],
          rec |-> fr.rec, err |-> "nil"]

newDecoder == [fi |-> 1, k |-> 1, lastValidOff |-> 0, crc |-> 0]

\* The entry e appended without dropping the entries from its place on.
appendKeepingAll(ents, up, e) == Append(ents, e)

\* ents = append(ents[:up], e): e takes the place up + 1 and the entries from
\* there on are dropped.
appendAt(ents, up, e) == Append(SubSeq(ents, 1, up), e)

\* The body of the loop of ReadAll for the record that n decoded: r.early
\* tells a return from inside the loop, r.d is the decoder after the record.
readRecord(start, r, n) ==
  LET rec == n.rec
      next == [r EXCEPT !.d = n.d]
      fail(e) == [next EXCEPT !.metadata = <<>>, !.state = EmptyState, !.ents = <<>>,
                              !.err = e, !.early = TRUE] IN
  CASE rec.type = "entry" ->
         LET e == MustUnmarshal(rec.data)
             up == e.Index - start.Index - 1 IN
         IF e.Index > start.Index
         THEN IF up > Len(r.ents)
              THEN [next EXCEPT !.metadata = <<>>, !.ents = <<>>,
                                !.err = "ErrSliceOutOfRange", !.early = TRUE]
              ELSE [next EXCEPT !.ents = appendAt(r.ents, up, e), !.enti = e.Index]
         ELSE [next EXCEPT !.enti = e.Index]
    [] rec.type = "state" -> [next EXCEPT !.state = MustUnmarshal(rec.data)]
    [] rec.type = "metadata" ->
         IF r.metadata # <<>> /\ r.metadata # rec.data
         THEN fail("ErrMetadataConflict")
         ELSE [next EXCEPT !.metadata = rec.data]
    [] rec.type = "crc" ->
         IF n.d.crc # 0 /\ rec.crc # n.d.crc
         THEN fail("ErrCRCMismatch")
         ELSE [next EXCEPT !.d.crc = rec.crc]
    [] rec.type = "snapshot" ->
         LET snap == MustUnmarshal(rec.data) IN
         IF snap.Index = start.Index
         THEN IF snap.Term # start.Term
              THEN fail("ErrSnapshotMismatch")
              ELSE [next EXCEPT !.match = TRUE]
         ELSE next

\* The loop of ReadAll, until decoding fails or the body returns.
RECURSIVE readLoop(_, _, _, _)
readLoop(files, start, d, r) ==
  LET n == decodeRecord(files, d) IN
  IF n.err # "nil" THEN [r EXCEPT !.err = n.err, !.d = n.d]
  ELSE LET r2 == readRecord(start, r, n) IN
       IF r2.early THEN r2 ELSE readLoop(files, start, r2.d, r2)

\* ReadAll over the opened files: what it returns (metadata, state, ents,
\* err), whether it leaves an encoder (ready), and the decoder it ends with.
ReadAll(files, start, write, enti) ==
  LET r0 == [metadata |-> <<>>, state |-> EmptyState, ents |-> <<>>, err |-> "nil",
             early |-> FALSE, match |-> FALSE, enti |-> enti, d |-> newDecoder,
             ready |-> FALSE]
      r == readLoop(files, start, newDecoder, r0)
      complete == IF write THEN r.err = "EOF" ELSE r.err \in {"EOF", "ErrUnexpectedEOF"}
      notFound == IF r.match THEN "nil" ELSE "ErrSnapshotNotFound" IN
  IF r.early THEN r
  ELSE IF ~complete
  THEN [r EXCEPT !.metadata = <<>>, !.state = EmptyState, !.ents = <<>>]
  ELSE IF write
  THEN \* err takes the result of newFileEncoder, which succeeds
       [r EXCEPT !.err = "nil", !.ready = TRUE]
  ELSE [r EXCEPT !.err = notFound]

(***************************************************************************)
(* The operations of the WAL on the open handle w and the segment files.   *)
(* w is [status, write, start, from, enti, state, crc, metadata]: status is *)
(* "ready" with an encoder (after Create, or ReadAll in write mode),        *)
(* "opened" with a decoder (after Open or OpenForRead), "failed" after a    *)
(* ReadAll that returned early or incomplete, "closed" without a handle;    *)
(* from is the first of the files the handle holds; crc is the encoder's.   *)
(***************************************************************************)
tail(files) == files[Len(files)]

sync(files) == [files EXCEPT ![Len(files)].synced = Len(tail(files).frames)]

RECURSIVE saveEntries(_, _, _)
saveEntries(f, crc, ents) ==
  IF ents = <<>> THEN [f |-> f, crc |-> crc]
  ELSE LET r == encode(f, crc, "entry", MustMarshal("entry", ents[1])) IN
       saveEntries(r.f, r.crc, Tail(ents))

saveState(f, crc, st) ==
  IF IsEmptyHardState(st) THEN [f |-> f, crc |-> crc]
  ELSE encode(f, crc, "state", MustMarshal("state", st))

saveCrc(f, crc, prevCrc) == encode(f, crc, "crc", <<>>)

\* cut opening the new segment with a fresh CRC instead of the running one.
cutUnchained(w, files) ==
  LET old == [tail(files) EXCEPT !.size = endOff(tail(files).frames),
                                   !.synced = Len(tail(files).frames)]
      c == saveCrc(NewFile(old.seq + 1, w.enti + 1), 0, 0)
      m == encode(c.f, c.crc, "metadata", w.metadata)
      s == saveState(m.f, m.crc, w.state) IN
  [w |-> [w EXCEPT !.crc = s.crc],
   files |-> sync(Append([files EXCEPT ![Len(files)] = old], s.f))]

\* cut: the tail is truncated at its offset and synced, and a new segment
\* opens with the CRC, the metadata and the state.
cut(w, files) ==
  LET old == [tail(files) EXCEPT !.size = endOff(tail(files).frames),
                                   !.synced = Len(tail(files).frames)]
      prevCrc == w.crc
      c == saveCrc(NewFile(old.seq + 1, w.enti + 1), prevCrc, prevCrc)
      m == encode(c.f, c.crc, "metadata", w.metadata)
      s == saveState(m.f, m.crc, w.state) IN
  [w |-> [w EXCEPT !.crc = s.crc],
   files |-> sync(Append([files EXCEPT ![Len(files)] = old], s.f))]

\* Save that returns without a sync unless it cuts.
SaveWithoutSync(w, files, st, ents) ==
  IF IsEmptyHardState(st) /\ ents = <<>> THEN [w |-> w, files |-> files]
  ELSE
    LET e == saveEntries(tail(files), w.crc, ents)
        s == saveState(e.f, e.crc, st)
        w2 == [w EXCEPT !.crc = s.crc,
                        !.enti = IF ents = <<>> THEN @ ELSE ents[Len(ents)].Index,
                        !.state = IF IsEmptyHardState(st) THEN @ ELSE st]
        files2 == [files EXCEPT ![Len(files)] = s.f]
        curOff == endOff(s.f.frames) IN
    IF curOff < SegmentSizeBytes
    THEN [w |-> w2, files |-> files2]
    ELSE cut(w2, files2)

\* Save that writes the state only when it differs from the state of the WAL.
SaveChangedState(w, files, st, ents) ==
  IF IsEmptyHardState(st) /\ ents = <<>> THEN [w |-> w, files |-> files]
  ELSE
    LET mustSync == MustSync(st, w.state, Len(ents))
        e == saveEntries(tail(files), w.crc, ents)
        s == IF st = w.state THEN e ELSE saveState(e.f, e.crc, st)
        w2 == [w EXCEPT !.crc = s.crc,
                        !.enti = IF ents = <<>> THEN @ ELSE ents[Len(ents)].Index,
                        !.state = IF IsEmptyHardState(st) THEN @ ELSE st]
        files2 == [files EXCEPT ![Len(files)] = s.f]
        curOff == endOff(s.f.frames) IN
    IF curOff < SegmentSizeBytes
    THEN [w |-> w2, files |-> IF mustSync THEN sync(files2) ELSE files2]
    ELSE cut(w2, files2)

Save(w, files, st, ents) ==
  IF IsEmptyHardState(st) /\ ents = <<>> THEN [w |-> w, files |-> files]
  ELSE
    LET mustSync == MustSync(st, w.state, Len(ents))
        e == saveEntries(tail(files), w.crc, ents)
        s == saveState(e.f, e.crc, st)
        w2 == [w EXCEPT !.crc = s.crc,
                        !.enti = IF ents = <<>> THEN @ ELSE ents[Len(ents)].Index,
                        !.state = IF IsEmptyHardState(st) THEN @ ELSE st]
        files2 == [files EXCEPT ![Len(files)] = s.f]
        curOff == endOff(s.f.frames) IN
    IF curOff < SegmentSizeBytes
    THEN [w |-> w2, files |-> IF mustSync THEN sync(files2) ELSE files2]
    ELSE cut(w2, files2)

SaveSnapshot(w, files, snap) ==
  LET r == encode(tail(files), w.crc, "snapshot", MustMarshal("snapshot", snap)) IN
  [w |-> [w EXCEPT !.crc = r.crc, !.enti = IF @ < snap.Index THEN snap.Index ELSE @],
   files |-> sync([files EXCEPT ![Len(files)] = r.f])]

\* Create: a first segment 0-0 with the CRC 0, the metadata and an empty snapshot.
Create ==
  LET c == saveCrc(NewFile(0, 0), 0, 0)
      m == encode(c.f, c.crc, "metadata", Metadata)
      w == [status |-> "ready", write |-> TRUE, start |-> Entry(0, 0), from |-> 1,
            enti |-> 0, state |-> EmptyState, crc |-> m.crc, metadata |-> Metadata] IN
  SaveSnapshot(w, <<m.f>>, Entry(0, 0))

\* searchIndex: the last file whose index is <= index; 0 when there is none.
searchIndex(files, index) ==
  LET ok == {i \in DOMAIN files : files[i].index <= index} IN
  IF ok = {} THEN 0 ELSE CHOOSE i \in ok : \A j \in ok : j <= i

isValidSeq(files, from) ==
  \A i \in from..(Len(files) - 1) : files[i + 1].seq = files[i].seq + 1

NoRes == [op |-> "none"]

HardStates ==
  {EmptyState} \cup {[Term |-> 1, Vote |-> 1, Commit |-> c] : c \in 0..1}

\* The entries of one Save: dense, at most one past the last index written.
WalEnts(enti) ==
  {<<>>} \cup UNION {{Ents(a, ts) : ts \in {s \in TermSeqs : s # <<>> /\ a + Len(s) - 1 <= WalMaxIndex}} :
                       a \in 1..Min(enti + 1, WalMaxIndex)}

WalSnaps == {Entry(i, t) : i \in 1..(WalMaxIndex - 1), t \in 1..MaxTerm}

\* What the callers handed to the WAL, in order: entries, states, snapshots.
Logical(st, ents) ==
  [k \in 1..Len(ents) |-> [kind |-> "entry", v |-> ents[k]]]
    \o (IF IsEmptyHardState(st) THEN <<>> ELSE <<[kind |-> "state", v |-> st]>>)

WalInit ==
  /\ disk = Create.files
  /\ wal = Create.w
  /\ walRes = NoRes
  /\ saved = <<>>
  /\ walCount = [ops |-> 0, crashes |-> 0, opens |-> 0]

(***************************************************************************)
(* raftNode: the loop of serveChannels over the Ready of the log. A Ready  *)
(* is [Entries, CommittedEntries, HardState]; the node is [pc, rd,         *)
(* prevHardSt, appliedIndex, commitC, saveErr, readies].                   *)
(***************************************************************************)
MaxReadies == 3

NoReady == [Entries |-> <<>>, CommittedEntries |-> <<>>, HardState |-> EmptyState]

\* The hard state of the node: one term and vote, and the commit index.
hardState(l) == [Term |-> 1, Vote |-> 1, Commit |-> l.committed]

\* The Ready of the log: the unstable entries to save, the entries to apply,
\* and the hard state when it has changed.
newReady(l, prevHardSt) ==
  [Entries |-> unstableEntries(l),
   CommittedEntries |-> nextEnts(l).ents,
   HardState |-> IF hardState(l) # prevHardSt THEN hardState(l) ELSE EmptyState]

\* Advance: the entries of the Ready are applied and stable.
advance(l, rd) ==
  LET ce == rd.CommittedEntries
      es == rd.Entries
      a == IF ce = <<>> THEN [l |-> l, panic |-> FALSE]
           ELSE appliedTo(l, ce[Len(ce)].Index) IN
  [l |-> IF es = <<>> THEN a.l ELSE stableTo(a.l, es[Len(es)].Index, es[Len(es)].Term),
   panic |-> a.panic]

\* entriesToApply: the entries after appliedIndex; the process ends when
\* they leave a gap.
entriesToApply(appliedIndex, ents) ==
  IF ents = <<>> THEN [nents |-> <<>>, fatal |-> FALSE]
  ELSE LET firstIdx == ents[1].Index IN
       IF firstIdx > appliedIndex + 1 THEN [nents |-> <<>>, fatal |-> TRUE]
       ELSE [nents |-> SubSeq(ents, appliedIndex - firstIdx + 2, Len(ents)),
             fatal |-> FALSE]

\* publishEntries: the entries go to the commit channel and appliedIndex
\* moves to the last of them.
publishEntries(n, ents) ==
  IF ents = <<>> THEN n
  ELSE [n EXCEPT !.commitC = @ \o ents, !.appliedIndex = ents[Len(ents)].Index]

NodeInit ==
  node = [pc |-> "idle", rd |-> NoReady, prevHardSt |-> EmptyState, appliedIndex |-> 0,
          commitC |-> <<>>, saveErr |-> FALSE, readies |-> 0]

(***************************************************************************)
(* WAL.cut step by step, with the process dying at any step. The new       *)
(* segment is written under the name of a temporary file: renamed tells    *)
(* that the process has renamed it, dirSynced that the directory was       *)
(* synced since, and after a crash finalName tells whether the directory   *)
(* on the disk has the segment under its final name.                       *)
(***************************************************************************)
NoCut == [pc |-> "idle"]

\* The WAL and its tail when Save calls cut: the tail of segment seq holds
\* the header and the records of Saves, the last ones not synced, and has
\* reached the segment size.
CutStarts ==
  {[pc |-> "truncate",
    w |-> [crc |-> s.crc, enti |-> ents[Len(ents)].Index, metadata |-> Metadata,
           state |-> st],
    old |-> s.f, tmp |-> <<>>, prevCrc |-> s.crc,
    renamed |-> FALSE, dirSynced |-> FALSE, finalName |-> FALSE] :
     <<seq, ents, st, s>> \in
       {x \in {<<seq, ents, st,
          LET c == saveCrc(NewFile(seq, 0), 0, 0)
              m == encode(c.f, c.crc, "metadata", Metadata)
              h == [m.f EXCEPT !.synced = Len(m.f.frames)]
              e == saveEntries(h, m.crc, ents) IN
          saveState(e.f, e.crc, st)>> :
          seq \in 0..1, ents \in WalEnts(0) \ {<<>>}, st \in HardStates} :
          endOff(x[4].f.frames) >= SegmentSizeBytes}}

CutInit == cutting = NoCut

(***************************************************************************)
(* The filePipeline: the goroutine of run, the channels filec (not         *)
(* buffered), errc (buffered, of one) and donec, and the callers of Open   *)
(* and Close.                                                              *)
(***************************************************************************)
FpMaxOpens == 3

NoFile == [f |-> "nil", err |-> "nil"]

\* newFilePipeline: the channels are empty and open, run is started. run is
\* "alloc" before alloc, "select" with a file at its select, "failed" after
\* it has sent the error of alloc and before it returns, "done" after its
\* return has closed errc. onDisk are the temporary files in the directory
\* (their number, count % 2), pending is the file that run holds, opened are
\* the results of the calls of Open, closer is the call of Close.
FpInit ==
  fp = [run |-> "alloc", count |-> 0, pending |-> <<>>, onDisk |-> {},
        allocErr |-> "nil", errc |-> <<>>, errcClosed |-> FALSE, donec |-> FALSE,
        opened |-> <<>>, closer |-> "idle", closeErr |-> "nil"]

(***************************************************************************)
(* The locks of the backend: the mutex of the batch transaction, the       *)
(* read-write mutexes backend.mu and of the read transaction, and the      *)
(* mutex of the cache of the read buffer. A call of the backend is the     *)
(* sequence of its lock and unlock calls; a thread runs one call at a      *)
(* time. A thread holds what it has locked and not yet unlocked, in the    *)
(* order of locking.                                                       *)
(***************************************************************************)
NumThreads == 3
Threads == 1..NumThreads

LockNames == {"batchTx", "mu", "readTx", "cache"}
RWLocks == {"mu", "readTx"}

DoLock(l) == [a |-> "Lock", l |-> l]
DoUnlock(l) == [a |-> "Unlock", l |-> l]
DoRLock(l) == [a |-> "RLock", l |-> l]
DoRUnlock(l) == [a |-> "RUnlock", l |-> l]

\* backend.begin: backend.mu is read-locked around the begin of the store.
beginLocks == <<DoRLock("mu"), DoRUnlock("mu")>>

\* batchTxBuffered.commit(stop): the read transaction is locked around
\* unsafeCommit, which unless stop is set begins the writing transaction
\* and the store transaction of the read transaction.
commitLocks(stop) ==
  <<DoLock("readTx")>>
    \o (IF stop THEN <<>> ELSE beginLocks \o beginLocks)
    \o <<DoUnlock("readTx")>>

\* batchTxBuffered.Commit and CommitAndStop.
CommitLocks(stop) == <<DoLock("batchTx")>> \o commitLocks(stop) \o <<DoUnlock("batchTx")>>

\* LockInsideApply or LockOutsideApply, puts, and batchTxBuffered.Unlock:
\* the writeback under the lock of the read transaction, and the commit
\* when the limit is reached or a delete is pending.
UnlockLocks(commits) ==
  <<DoLock("batchTx"), DoLock("readTx"), DoUnlock("readTx")>>
    \o (IF commits THEN commitLocks(FALSE) ELSE <<>>)
    \o <<DoUnlock("batchTx")>>

\* backend.ConcurrentReadTx when the cache is stale: it gives the mutex of
\* the cache up for the copy and locks it again.
ConcurrentReadTxLocks ==
  <<DoRLock("readTx"), DoLock("cache"), DoUnlock("cache"),
    DoLock("cache"), DoUnlock("cache"), DoRUnlock("readTx")>>

\* backend.Snapshot: a Commit, then the begin of a store transaction under
\* the read lock of backend.mu.
SnapshotLocks == CommitLocks(FALSE) \o <<DoRLock("mu"), DoRUnlock("mu")>>

\* A defrag that locks the read transaction and backend.mu before the
\* batch transaction.
defragLocksReadTxFirst ==
  <<DoLock("readTx"), DoLock("mu"), DoLock("batchTx"),
    DoUnlock("batchTx"), DoUnlock("mu"), DoUnlock("readTx")>>

\* backend.defrag: the three locks, and the deferred unlocks in the
\* reverse order; its unsafeCommit(true) and unsafeBegin take no lock.
defragLocks ==
  <<DoLock("batchTx"), DoLock("mu"), DoLock("readTx"),
    DoUnlock("readTx"), DoUnlock("mu"), DoUnlock("batchTx")>>

LockOps == {"Commit", "CommitAndStop", "Unlock", "UnlockCommit",
            "ConcurrentReadTx", "Snapshot", "defrag"}

\* The lock and unlock calls of the call op.
lockProgram(op) ==
  CASE op = "Commit" -> CommitLocks(FALSE)
    [] op = "CommitAndStop" -> CommitLocks(TRUE)
    [] op = "Unlock" -> UnlockLocks(FALSE)
    [] op = "UnlockCommit" -> UnlockLocks(TRUE)
    [] op = "ConcurrentReadTx" -> ConcurrentReadTxLocks
    [] op = "Snapshot" -> SnapshotLocks
    [] op = "defrag" -> defragLocks
    [] OTHER -> <<>>

\* A thread that runs no call.
idleThread == [op |-> "none", pc |-> 0, waiting |-> FALSE]

RECURSIVE heldAfter(_, _)
\* What a thread holds after the first n calls of the program prog: the
\* locks with their mode, in the order of locking.
heldAfter(prog, n) ==
  IF n = 0 THEN <<>>
  ELSE LET h == heldAfter(prog, n - 1)
           s == prog[n] IN
       IF s.a \in {"Lock", "RLock"} THEN Append(h, s)
       ELSE SelectSeq(h, LAMBDA e : e.l # s.l)

\* What the thread th holds.
Held(th) == heldAfter(lockProgram(th.op), th.pc)

\* The thread th holds the lock l in the mode a.
Holds(th, l, a) == \E k \in 1..Len(Held(th)) : Held(th)[k] = [a |-> a, l |-> l]

\* The next call of the thread th, when it runs a call.
nextCall(th) == lockProgram(th.op)[th.pc + 1]

\* The thread th after its next call: past its last call it is idle.
stepped(th) ==
  IF th.pc + 1 = Len(lockProgram(th.op)) THEN idleThread
  ELSE [th EXCEPT !.pc = @ + 1, !.waiting = FALSE]

LockInit == threads = [i \in Threads |-> idleThread]

(***************************************************************************)
(* The backend: bucket buffers, the write buffer of the batch transaction  *)
(* and the read buffer of the read transaction, over one bucket. Bucket    *)
(* buffers are objects of a heap (a sequence: an object is its index), so  *)
(* that a buffer shared by two holders is seen to change by both. A key is *)
(* a number from 1 on, and 0 is the nil key of a slot never written.       *)
(***************************************************************************)
MaxKey == 2
MaxMuts == 3
MaxCommits == 2
MaxReaders == 2
MaxVersion == 3
batchLimit == 3

Keys == 1..MaxKey
Vals == 1..MaxMuts

NoKV == [key |-> 0, val |-> 0]

\* bb.buf[i], for the index i from 0 of Go: the slots from used on keep what
\* was written to them, and the slots past the written ones are zero.
bufAt(bb, i) == IF i + 1 <= Len(bb.buf) THEN bb.buf[i + 1] ELSE NoKV

newBucketBuffer == [buf |-> <<>>, used |-> 0]

add(bb, k, v) ==
  [buf |-> IF bb.used < Len(bb.buf)
           THEN [bb.buf EXCEPT ![bb.used + 1] = [key |-> k, val |-> v]]
           ELSE Append(bb.buf, [key |-> k, val |-> v]),
   used |-> bb.used + 1]

Copy(bb) == [buf |-> bb.buf, used |-> bb.used]

\* sort.Search(n, f) with f(i) = (bb.buf[i].key >= key): the binary search of
\* Go, between i and j.
RECURSIVE Search(_, _, _, _)
Search(bb, key, i, j) ==
  IF i >= j THEN i
  ELSE LET h == (i + j) \div 2 IN
       IF bufAt(bb, h).key >= key THEN Search(bb, key, i, h)
       ELSE Search(bb, key, h + 1, j)

\* bucketBuffer.Range for one key (no endKey): the pairs found, none or one.
bucketRange(bb, key) ==
  LET idx == Search(bb, key, 0, bb.used) IN
  IF key = bufAt(bb, idx).key THEN <<bufAt(bb, idx)>> ELSE <<>>

\* x inserted in the sorted s after the elements whose key is not greater.
RECURSIVE insertByKey(_, _)
insertByKey(s, x) ==
  IF s = <<>> THEN <<x>>
  ELSE IF s[Len(s)].key <= x.key THEN Append(s, x)
  ELSE Append(insertByKey(SubSeq(s, 1, Len(s) - 1), x), s[Len(s)])

\* sort.Stable: by key, equal keys in the order they had.
RECURSIVE stableSort(_)
stableSort(s) ==
  IF s = <<>> THEN <<>>
  ELSE insertByKey(stableSort(SubSeq(s, 1, Len(s) - 1)), s[Len(s)])

\* sort.Sort, which is not stable: every order by key of the elements of s.
sortOutcomes(s) ==
  LET n == Len(s)
      perms == {p \in [1..n -> 1..n] : \A i, j \in 1..n : i # j => p[i] # p[j]} IN
  {t \in {[i \in 1..n |-> s[p[i]]] : p \in perms} :
     \A i \in 1..(n - 1) : t[i].key <= t[i + 1].key}

\* The loop of merge that drops, of the slots below used with one key, all
\* but the last: widx after it has read the slots up to ridx - 1.
RECURSIVE dedup(_, _, _, _)
dedup(buf, used, widx, ridx) ==
  IF ridx >= used THEN [buf |-> buf, used |-> widx + 1]
  ELSE LET w == IF buf[ridx + 1].key # buf[widx + 1].key THEN widx + 1 ELSE widx IN
       dedup([buf EXCEPT ![w + 1] = buf[ridx + 1]], used, w, ridx + 1)

\* The slots of bbsrc added to bb one after the other.
RECURSIVE addAll(_, _, _)
addAll(bb, bbsrc, i) ==
  IF i >= bbsrc.used THEN bb
  ELSE addAll(add(bb, bufAt(bbsrc, i).key, bufAt(bbsrc, i).val), bbsrc, i + 1)

merge(bb, bbsrc) ==
  LET a == addAll(bb, bbsrc, 0) IN
  IF a.used = bbsrc.used THEN a
  ELSE IF bufAt(a, (a.used - bbsrc.used) - 1).key < bufAt(bbsrc, 0).key THEN a
  ELSE LET sorted == stableSort(SubSeq(a.buf, 1, a.used))
                       \o SubSeq(a.buf, a.used + 1, Len(a.buf)) IN
       dedup(sorted, a.used, 0, 1)
\* txBuffer.reset over the one bucket (0 when the buffer has no bucket): a
\* bucket that was not used leaves the buffer, and used becomes 0.
txBufferReset(h, bucket) ==
  IF bucket = 0 THEN [heap |-> h, bucket |-> 0]
  ELSE [heap |-> [h EXCEPT ![bucket].used = 0],
        bucket |-> IF h[bucket].used = 0 THEN 0 ELSE bucket]

\* The write buffer: its bucket and the entry of bucket2seq for it ("absent",
\* "seq" for true, "notSeq" for false).
newTxWriteBuffer == [bucket |-> 0, seq |-> "absent"]

putInternal(h, txw, k, v) ==
  IF txw.bucket = 0
  THEN [heap |-> Append(h, add(newBucketBuffer, k, v)),
        txw |-> [txw EXCEPT !.bucket = Len(h) + 1]]
  ELSE [heap |-> [h EXCEPT ![txw.bucket] = add(@, k, v)], txw |-> txw]

put(h, txw, k, v) == putInternal(h, [txw EXCEPT !.seq = "notSeq"], k, v)

putSeq(h, txw, k, v) == putInternal(h, txw, k, v)

txWriteBufferReset(h, txw) ==
  LET r == txBufferReset(h, txw.bucket) IN
  [heap |-> r.heap,
   txw |-> [bucket |-> r.bucket,
            seq |-> IF txw.seq = "absent" \/ r.bucket = 0 THEN "absent"
                    ELSE IF r.heap[r.bucket].used = 0 THEN "seq" ELSE txw.seq]]

\* The read buffer: its bucket and its version.
newTxReadBuffer == [bucket |-> 0, bufVersion |-> 0]

\* writeback: every outcome of it; sort.Sort leaves the order of equal keys
\* open.
writeback(h, txw, txr) ==
  LET moved ==
        IF txw.bucket = 0 THEN {[heap |-> h, txw |-> txw, txr |-> txr]}
        ELSE IF txr.bucket = 0
        THEN {[heap |-> h, txw |-> [txw EXCEPT !.bucket = 0],
               txr |-> [txr EXCEPT !.bucket = txw.bucket]]}
        ELSE LET wb == h[txw.bucket]
                 sorted == IF txw.seq = "notSeq" /\ wb.used > 1
                           THEN {[wb EXCEPT !.buf = s \o SubSeq(wb.buf, wb.used + 1, Len(wb.buf))] :
                                   s \in sortOutcomes(SubSeq(wb.buf, 1, wb.used))}
                           ELSE {wb} IN
             {[heap |-> [h EXCEPT ![txw.bucket] = w, ![txr.bucket] = merge(h[txr.bucket], w)],
               txw |-> txw, txr |-> txr] : w \in sorted} IN
  {LET r == txWriteBufferReset(m.heap, m.txw) IN
   [heap |-> r.heap, txw |-> r.txw, txr |-> [m.txr EXCEPT !.bufVersion = @ + 1]] : m \in moved}

\* txReadBuffer.Range for one key.
txReadBufferRange(h, txr, key) ==
  IF txr.bucket = 0 THEN <<>> ELSE bucketRange(h[txr.bucket], key)

\* unsafeCopy that shares the bucket buffers of the read buffer.
unsafeCopyShared(h, txr) ==
  [heap |-> h, buf |-> [bucket |-> txr.bucket, bufVersion |-> 0]]

unsafeCopy(h, txr) ==
  IF txr.bucket = 0 THEN [heap |-> h, buf |-> [bucket |-> 0, bufVersion |-> 0]]
  ELSE [heap |-> Append(h, Copy(h[txr.bucket])),
        buf |-> [bucket |-> Len(h) + 1, bufVersion |-> 0]]

(***************************************************************************)
(* The store: db is what is committed, a read-only transaction is a view   *)
(* of what was committed when it began, and the writing transaction of     *)
(* the batch transaction is a view that its puts and deletes change. A     *)
(* view maps a key to its value, or to 0 when the key is absent.           *)
(***************************************************************************)
EmptyView == [k \in Keys |-> 0]

\* unsafeRange over a view, for one key.
unsafeRange(view, key) ==
  IF view[key] = 0 THEN <<>> ELSE <<[key |-> key, val |-> view[key]]>>

\* begin(false): a read-only transaction over what is committed; closing
\* tells that a goroutine waits for its readers to roll it back, and wg is
\* the counter of the wait group that the read transaction has with it.
beginRead(b) ==
  [b EXCEPT !.txs = Append(@, [view |-> b.db, closing |-> FALSE,
                               rolledBack |-> FALSE, wg |-> 0])]

\* A ConcurrentReadTx that takes no hold on the store transaction.
txWgAddNothing(b, tx) == b

\* txWg.Add(1) of ConcurrentReadTx, and txWg.Done() of the reader's RUnlock,
\* on the wait group of the store transaction tx.
txWgAdd(b, tx) == [b EXCEPT !.txs[tx].wg = @ + 1]

txWgDone(b, tx) == [b EXCEPT !.txs[tx].wg = @ - 1]

\* batchTx.unsafePut and batchTx.UnsafeDelete on the writing transaction.
unsafePut(t, key, value) ==
  [t EXCEPT !.tx = [@ EXCEPT ![key] = value], !.pending = @ + 1]

\* An UnsafeDelete that does not count as pending.
UnsafeDeleteNotPending(t, key) == [t EXCEPT !.tx = [@ EXCEPT ![key] = 0]]

UnsafeDelete(t, key) ==
  [t EXCEPT !.tx = [@ EXCEPT ![key] = 0], !.pending = @ + 1]

\* batchTx.commit(stop), with the store b: the batch transaction and the store after it.
commit(t, b, stop) ==
  IF t.pending = 0 /\ ~stop THEN [t |-> t, b |-> b]
  ELSE [t |-> [t EXCEPT !.pending = 0, !.stopped = stop],
        b |-> [b EXCEPT !.db = t.tx, !.commits = @ + 1]]

\* readTx.reset: the read buffer is reset, and the read transaction has no
\* store transaction.
readTxReset(h, rt) ==
  LET r == txBufferReset(h, rt.buf.bucket) IN
  [heap |-> r.heap, rt |-> [buf |-> [rt.buf EXCEPT !.bucket = r.bucket], tx |-> 0]]

\* An unsafeCommit that has the store transaction of the read transaction
\* rolled back before it commits, whatever readers hold it.
unsafeCommitRollingBack(h, t, rt, b, stop) ==
  LET closing == IF rt.tx # 0
                 THEN [b EXCEPT !.txs[rt.tx].closing = TRUE, !.txs[rt.tx].rolledBack = TRUE]
                 ELSE b
      r == IF rt.tx # 0 THEN readTxReset(h, rt) ELSE [heap |-> h, rt |-> rt]
      c == commit(t, closing, stop)
      b2 == IF stop THEN c.b ELSE beginRead(c.b) IN
  [heap |-> r.heap,
   t |-> [c.t EXCEPT !.pendingDeleteOperations = 0],
   rt |-> IF stop THEN r.rt ELSE [r.rt EXCEPT !.tx = Len(b2.txs)],
   b |-> b2]

\* batchTxBuffered.unsafeCommit(stop) on the heap h, the batch transaction
\* t, the read transaction rt and the store b.
unsafeCommit(h, t, rt, b, stop) ==
  LET closing == IF rt.tx # 0 THEN [b EXCEPT !.txs[rt.tx].closing = TRUE] ELSE b
      r == IF rt.tx # 0 THEN readTxReset(h, rt) ELSE [heap |-> h, rt |-> rt]
      c == commit(t, closing, stop)
      b2 == IF stop THEN c.b ELSE beginRead(c.b) IN
  [heap |-> r.heap,
   t |-> [c.t EXCEPT !.pendingDeleteOperations = 0],
   rt |-> IF stop THEN r.rt ELSE [r.rt EXCEPT !.tx = Len(b2.txs)],
   b |-> b2]

\* baseReadTx.UnsafeRange for one key: the read buffer first, then the store
\* transaction of the reader.
UnsafeRange(h, b, rd, key) ==
  LET found == txReadBufferRange(h, rd.buf, key) IN
  IF found # <<>> THEN found ELSE unsafeRange(b.txs[rd.tx].view, key)

\* What a reader reads of every key: its value, or 0.
ViewOf(h, b, rd) ==
  [k \in Keys |-> LET f == UnsafeRange(h, b, rd, k) IN IF f = <<>> THEN 0 ELSE f[1].val]

BackendInit ==
  /\ heap = <<>>
  /\ batchTx = [tx |-> EmptyView, pending |-> 0, pendingDeleteOperations |-> 0,
                stopped |-> FALSE, buf |-> newTxWriteBuffer, pc |-> "unlocked"]
  /\ readTx = [buf |-> newTxReadBuffer, tx |-> 1]
  /\ txReadBufferCache = [buf |-> <<>>, bufVersion |-> 0]
  /\ bolt = beginRead([db |-> EmptyView, txs |-> <<>>, commits |-> 0])
  /\ readers = <<>>
  /\ beOps = 0

(***************************************************************************)
(* The keyIndex of one key: its generations, each with its revisions in    *)
(* order of writing. A revision is its main and its sub; a position in a   *)
(* slice counts from 0 as in the code, and -1 is no position.              *)
(***************************************************************************)
MaxMain == 5
MaxSub == 1
MaxRevisions == 5

Revisions == [main : 1..MaxMain, sub : 0..MaxSub]

NoRevision == [main |-> 0, sub |-> 0]

\* revision.GreaterThan.
GreaterThan(a, b) == a.main > b.main \/ (a.main = b.main /\ a.sub > b.sub)

\* generation{}.
NoGeneration == [ver |-> 0, created |-> NoRevision, revs |-> <<>>]

\* A keyIndex with no generation, as the index creates it before its first put.
NewKeyIndex == [modified |-> NoRevision, generations |-> <<>>]

generationIsEmpty(g) == Len(g.revs) = 0

keyIndexIsEmpty(ki) ==
  Len(ki.generations) = 1 /\ generationIsEmpty(ki.generations[1])

\* keyIndex.put, for a revision greater than the modified one (it panics
\* otherwise).
keyIndexPut(ki, main, sub) ==
  LET rev == [main |-> main, sub |-> sub]
      gens == IF Len(ki.generations) = 0 THEN <<NoGeneration>> ELSE ki.generations
      n == Len(gens)
      g == gens[n]
      g1 == [ver |-> g.ver + 1,
             created |-> IF Len(g.revs) = 0 THEN rev ELSE g.created,
             revs |-> Append(g.revs, rev)] IN
  [modified |-> rev, generations |-> [gens EXCEPT ![n] = g1]]

\* A tombstone that puts nothing and ends the generation, empty or not.
tombstoneWithoutPut(ki, main, sub) ==
  [ki |-> [ki EXCEPT !.generations = Append(@, NoGeneration)], err |-> "nil"]

\* keyIndex.tombstone, on a keyIndex that is not empty: the keyIndex after
\* it and the error it returns.
tombstone(ki, main, sub) ==
  IF generationIsEmpty(ki.generations[Len(ki.generations)])
  THEN [ki |-> ki, err |-> "ErrRevisionNotFound"]
  ELSE LET p == keyIndexPut(ki, main, sub) IN
       [ki |-> [p EXCEPT !.generations = Append(@, NoGeneration)], err |-> "nil"]

\* generation.walk with a function that stops at a revision whose main is at
\* most atRev, from the position i down.
RECURSIVE walkFrom(_, _, _)
walkFrom(g, atRev, i) ==
  IF i < 0 THEN -1
  ELSE IF g.revs[i + 1].main <= atRev THEN i
  ELSE walkFrom(g, atRev, i - 1)

walk(g, atRev) == walkFrom(g, atRev, Len(g.revs) - 1)

\* findGeneration that does not stop at the tombstone of a generation.
RECURSIVE findGenerationPastTombstone(_, _, _)
findGenerationPastTombstone(ki, rev, cg) ==
  LET g == ki.generations[cg + 1] IN
  IF cg < 0 THEN -1
  ELSE IF Len(g.revs) = 0 THEN findGenerationPastTombstone(ki, rev, cg - 1)
  ELSE IF g.revs[1].main <= rev THEN cg
  ELSE findGenerationPastTombstone(ki, rev, cg - 1)

\* keyIndex.findGeneration: the position of the generation, or -1 for nil.
RECURSIVE findGenerationFrom(_, _, _)
findGenerationFrom(ki, rev, cg) ==
  LET lastg == Len(ki.generations) - 1
      g == ki.generations[cg + 1] IN
  IF cg < 0 THEN -1
  ELSE IF Len(g.revs) = 0 THEN findGenerationFrom(ki, rev, cg - 1)
  ELSE IF cg # lastg /\ g.revs[Len(g.revs)].main <= rev THEN -1
  ELSE IF g.revs[1].main <= rev THEN cg
  ELSE findGenerationFrom(ki, rev, cg - 1)

findGeneration(ki, rev) == findGenerationFrom(ki, rev, Len(ki.generations) - 1)

NotFound ==
  [modified |-> NoRevision, created |-> NoRevision, ver |-> 0, err |-> "ErrRevisionNotFound"]

\* keyIndex.get, on a keyIndex that is not empty (it panics on an empty one).
get(ki, atRev) ==
  LET cg == findGeneration(ki, atRev) IN
  IF cg = -1 THEN NotFound
  ELSE LET g == ki.generations[cg + 1]
           n == walk(g, atRev) IN
       IF n # -1
       THEN [modified |-> g.revs[n + 1], created |-> g.created,
             ver |-> g.ver - (Len(g.revs) - n - 1), err |-> "nil"]
       ELSE NotFound

\* The loop of doCompact that stays at the generation it starts from.
compactGenerationFirst(ki, atRev, genIdx) == genIdx

\* The loop of doCompact: the first generation from genIdx on that holds
\* atRev or was created after it.
RECURSIVE compactGeneration(_, _, _)
compactGeneration(ki, atRev, genIdx) ==
  LET g == ki.generations[genIdx + 1] IN
  IF genIdx < Len(ki.generations) - 1 /\ ~(g.revs[Len(g.revs)].main > atRev)
  THEN compactGeneration(ki, atRev, genIdx + 1)
  ELSE genIdx

\* keyIndex.doCompact: the two positions it returns, and the available set.
doCompact(ki, atRev, available) ==
  LET genIdx == compactGeneration(ki, atRev, 0)
      g == ki.generations[genIdx + 1]
      revIndex == walk(g, atRev) IN
  [genIdx |-> genIdx, revIndex |-> revIndex,
   available |-> IF revIndex # -1 THEN available \cup {g.revs[revIndex + 1]} ELSE available]

\* compact that cuts the generation after the revision found, not at it.
compactDroppingKept(ki, atRev, available) ==
  LET d == doCompact(ki, atRev, available)
      g == ki.generations[d.genIdx + 1]
      g1 == IF ~generationIsEmpty(g) /\ d.revIndex # -1
            THEN [g EXCEPT !.revs = SubSeq(g.revs, d.revIndex + 2, Len(g.revs))]
            ELSE g IN
  [ki |-> [ki EXCEPT !.generations =
             SubSeq([ki.generations EXCEPT ![d.genIdx + 1] = g1], d.genIdx + 1, Len(ki.generations))],
   available |-> d.available]

\* compact that removes the generation found whenever it is not the last.
compactDroppingGeneration(ki, atRev, available) ==
  LET d == doCompact(ki, atRev, available)
      genIdx == IF d.genIdx # Len(ki.generations) - 1 THEN d.genIdx + 1 ELSE d.genIdx IN
  [ki |-> [ki EXCEPT !.generations = SubSeq(ki.generations, genIdx + 1, Len(ki.generations))],
   available |-> d.available]

\* keyIndex.compact, on a keyIndex that is not empty (it panics on an empty
\* one): the keyIndex and the available set after it.
compact(ki, atRev, available) ==
  LET d == doCompact(ki, atRev, available)
      g == ki.generations[d.genIdx + 1]
      g1 == IF ~generationIsEmpty(g) /\ d.revIndex # -1
            THEN [g EXCEPT !.revs = SubSeq(g.revs, d.revIndex + 1, Len(g.revs))]
            ELSE g
      tomb == ~generationIsEmpty(g) /\ Len(g1.revs) = 1
              /\ d.genIdx # Len(ki.generations) - 1
      genIdx == IF tomb THEN d.genIdx + 1 ELSE d.genIdx IN
  [ki |-> [ki EXCEPT !.generations =
             SubSeq([ki.generations EXCEPT ![d.genIdx + 1] = g1], genIdx + 1, Len(ki.generations))],
   available |-> IF tomb THEN d.available \ {g1.revs[1]} ELSE d.available]

\* keep that adds no revision to the available set.
keepAddingNothing(ki, atRev, available) == [ki |-> ki, available |-> available]

\* keyIndex.keep: the keyIndex and the available set after it.
keep(ki, atRev, available) ==
  IF keyIndexIsEmpty(ki) THEN [ki |-> ki, available |-> available]
  ELSE LET d == doCompact(ki, atRev, available)
           g == ki.generations[d.genIdx + 1] IN
       [ki |-> ki,
        available |-> IF ~generationIsEmpty(g) /\ d.revIndex = Len(g.revs) - 1
                         /\ d.genIdx # Len(ki.generations) - 1
                      THEN d.available \ {g.revs[d.revIndex + 1]}
                      ELSE d.available]

\* The revisions of a keyIndex, and the sets of revisions handed to compact
\* and keep as available: none, or one of the keyIndex.
revisionsOf(ki) ==
  UNION {{ki.generations[i].revs[j] : j \in 1..Len(ki.generations[i].revs)} :
           i \in 1..Len(ki.generations)}

Availables(ki) == {{}} \cup {{r} : r \in revisionsOf(ki)}

NoKeyIndexOp == [op |-> "none"]

KeyIndexInit == keyIndex = NewKeyIndex /\ keyIndexOp = NoKeyIndexOp /\ keyIndexCount = 0

(***************************************************************************)
(* The replicated log as a state machine: one action per operation of      *)
(* raftLog, drawn over every argument within the bounds, and one per       *)
(* Storage call the application makes.  A call that panics ends the        *)
(* process, so only the calls that return are steps.                       *)
(***************************************************************************)
NoOp == [op |-> "none"]

LogInit == raftLog = newLog(NewMemoryStorage) /\ logOp = NoOp


\* A step of the replicated log to l; nothing else changes.
LogStep(l) == raftLog' = l /\ UNCHANGED notLog

LogAppend ==
  \E a \in 1..MaxIndex, ts \in TermSeqs :
    /\ a + Len(ts) - 1 <= MaxIndex
    /\ LET r == append(raftLog, Ents(a, ts)) IN
       ~r.panic /\ LogStep(r.l)

\* (index, logTerm) names the entry of the leader's log that precedes ents:
\* an entry has a term >= 1, and index 0 stands for the empty prefix, term 0.
ValidPrev(index, logTerm) == (index = 0) <=> (logTerm = 0)

\* A call whose (index, logTerm) does not match returns (0, false) and leaves
\* the log as it is: a stuttering step.
MaybeAppend ==
  \E index \in 0..MaxIndex, logTerm \in 0..MaxTerm :
    /\ ValidPrev(index, logTerm)
    /\ matchTerm(raftLog, index, logTerm)
    /\ \E c \in 0..MaxIndex, ts \in TermSeqs :
         /\ index + Len(ts) <= MaxIndex
         /\ LET r == maybeAppend(raftLog, index, logTerm, c, Ents(index + 1, ts)) IN
            ~r.panic /\ LogStep(r.l)

CommitTo ==
  \E i \in 0..MaxIndex :
    LET r == commitTo(raftLog, i) IN
    ~r.panic /\ LogStep(r.l)

MaybeCommit ==
  \E i \in 0..MaxIndex, t \in 0..MaxTerm :
    LET r == maybeCommit(raftLog, i, t) IN
    ~r.panic /\ LogStep(r.l)

AppliedTo ==
  \E i \in 0..MaxIndex :
    LET r == appliedTo(raftLog, i) IN
    ~r.panic /\ LogStep(r.l)

\* The entries of the unstable tail up to index i are in the storage, and
\* they are its last: Storage.Append(rd.Entries) cuts the storage at the last
\* entry it is given, and Advance calls stableTo with that entry.
Persisted(l, i) ==
  /\ msLastIndex(l.storage) = i
  /\ \A j \in l.unstable.offset..i :
       msTerm(l.storage, j) = [t |-> maybeTerm(l.unstable, j).t, err |-> "nil"]

\* stableTo is called once the entries up to i have been written to storage.
StableTo ==
  \E i \in 0..MaxIndex, t \in 0..MaxTerm :
    LET l == stableTo(raftLog, i, t) IN
    /\ l # raftLog => Persisted(raftLog, i)
    /\ LogStep(l)

\* The pending snapshot is in the storage, or the storage is already past it.
SnapshotPersisted(l) ==
  LET s == l.unstable.snapshot[1] IN
  \/ l.storage.ents[1] = s
  \/ l.storage.ents[1].Index > s.Index

\* stableSnapTo is called once the snapshot has been written to storage.
StableSnapTo ==
  \E i \in 0..MaxIndex :
    LET l == stableSnapTo(raftLog, i) IN
    /\ l # raftLog => SnapshotPersisted(raftLog)
    /\ LogStep(l)

Restore ==
  \E i \in 1..MaxIndex, t \in 1..MaxTerm :
    LogStep(restore(raftLog, Entry(i, t)))

\* The application persists the unstable entries: Storage.Append(rd.Entries).
StorageAppend ==
  /\ raftLog.unstable.entries # <<>>
  /\ LET r == msAppend(raftLog.storage, raftLog.unstable.entries) IN
     ~r.panic /\ LogStep([raftLog EXCEPT !.storage = r.ms])

\* The application persists the pending snapshot: Storage.ApplySnapshot(rd.Snapshot).
StorageApplySnapshot ==
  /\ raftLog.unstable.snapshot # <<>>
  /\ LogStep([raftLog EXCEPT
               !.storage = msApplySnapshot(raftLog.storage, raftLog.unstable.snapshot[1]).ms])

\* The application snapshots and compacts at indices it has applied.
StorageCreateSnapshot ==
  \E i \in 1..raftLog.applied :
    LET r == msCreateSnapshot(raftLog.storage, i) IN
    ~r.panic /\ LogStep([raftLog EXCEPT !.storage = r.ms])

StorageCompact ==
  \E i \in 1..raftLog.applied :
    LET r == msCompact(raftLog.storage, i) IN
    ~r.panic /\ LogStep([raftLog EXCEPT !.storage = r.ms])

Init == LogInit /\ WalInit /\ BackendInit /\ KeyIndexInit /\ NodeInit /\ LockInit /\ CutInit /\ FpInit

Next ==
  \/ LogAppend
  \/ MaybeAppend
  \/ CommitTo
  \/ MaybeCommit
  \/ AppliedTo
  \/ StableTo
  \/ StableSnapTo
  \/ Restore
  \/ StorageAppend
  \/ StorageApplySnapshot
  \/ StorageCreateSnapshot
  \/ StorageCompact

vars == <<raftLog, logOp, walVars, backendVars, keyIndexVars, nodeVars, lockVars, cutVars, fpVars>>

Spec == Init /\ [][Next]_vars

(***************************************************************************)
(* One maybeAppend call on the log of a node restarted over a storage of   *)
(* up to CallLen entries, with the call's arguments and results recorded.  *)
(***************************************************************************)
CallLen == 3

CallTermSeqs == UNION {[1..n -> 1..MaxTerm] : n \in 0..CallLen}

\* The log over a storage holding the entries 1..Len(ts), committed up to c.
StableLog(ts, c) ==
  commitTo(newLog(msAppend(NewMemoryStorage, Ents(1, ts)).ms), c).l

CallInit ==
  /\ \E ts \in CallTermSeqs, c \in 0..CallLen :
       c <= Len(ts) /\ raftLog = StableLog(ts, c)
  /\ logOp = NoOp
  /\ WalInit
  /\ BackendInit
  /\ KeyIndexInit
  /\ NodeInit
  /\ LockInit
  /\ CutInit
  /\ FpInit

CallMaybeAppend ==
  /\ logOp = NoOp
  /\ \E index \in 0..CallLen, logTerm \in 0..MaxTerm, c \in 0..(CallLen + 1),
        ts \in CallTermSeqs :
       LET ents == Ents(index + 1, ts)
           r == maybeAppend(raftLog, index, logTerm, c, ents) IN
       /\ ValidPrev(index, logTerm)
       /\ raftLog' = r.l
       /\ logOp' = [op |-> "maybeAppend", pre |-> raftLog, index |-> index,
                    logTerm |-> logTerm, committed |-> c, ents |-> ents,
                    ret |-> r.ret, ok |-> r.ok, panic |-> r.panic]
  /\ UNCHANGED <<walVars, backendVars, keyIndexVars, nodeVars, lockVars, cutVars, fpVars>>

CallNext == CallMaybeAppend

SpecCall == CallInit /\ [][CallNext]_vars


WalSave ==
  /\ wal.status = "ready"
  /\ walCount.ops < WalMaxOps
  /\ \E st \in HardStates, ents \in WalEnts(wal.enti) :
       /\ ~(IsEmptyHardState(st) /\ ents = <<>>)
       /\ LET r == Save(wal, disk, st, ents) IN
          /\ wal' = r.w
          /\ disk' = r.files
          /\ saved' = saved \o Logical(st, ents)
  /\ walCount' = [walCount EXCEPT !.ops = @ + 1]
  /\ UNCHANGED <<walRes, notWal>>

WalSaveSnapshot ==
  /\ wal.status = "ready"
  /\ walCount.ops < WalMaxOps
  /\ \E snap \in WalSnaps :
       LET r == SaveSnapshot(wal, disk, snap) IN
       /\ wal' = r.w
       /\ disk' = r.files
       /\ saved' = Append(saved, [kind |-> "snapshot", v |-> snap])
  /\ walCount' = [walCount EXCEPT !.ops = @ + 1]
  /\ UNCHANGED <<walRes, notWal>>

\* Close syncs the tail of a handle opened for writing.
\* The handle of a WAL that is closed: nothing of it is used again.
ClosedWAL == [status |-> "closed", write |-> FALSE, start |-> Entry(0, 0), from |-> 0,
              enti |-> 0, state |-> EmptyState, crc |-> 0, metadata |-> <<>>]

WalClose ==
  /\ wal.status \in {"ready", "opened", "failed"}
  /\ wal' = ClosedWAL
  /\ disk' = IF wal.write THEN sync(disk) ELSE disk
  /\ UNCHANGED <<walRes, saved, walCount, notWal>>

\* The sectors of the frame fr that reached the disk when its write was torn:
\* some of them, not all.
TornSectors(fr) ==
  (SUBSET sectorsOf(fr.off, frameBytes(fr))) \ {{}, sectorsOf(fr.off, frameBytes(fr))}

\* The process dies, idle or inside a call Save(st, ents) that has encoded its
\* records: of the frames of the tail that were not synced, the first k reach
\* the disk, and the next one not at all (torn = <<>>) or in part.
Crash ==
  /\ wal.status = "ready"
  /\ walCount.crashes < WalMaxCrashes
  /\ \E st \in HardStates, ents \in WalEnts(wal.enti) :
       LET idle == IsEmptyHardState(st) /\ ents = <<>>
           e == saveEntries(tail(disk), wal.crc, ents)
           f == saveState(e.f, e.crc, st).f IN
       /\ idle \/ walCount.ops < WalMaxOps
       /\ \E k \in f.synced..Len(f.frames) :
            \E torn \in {<<>>} \cup
                        (IF k < Len(f.frames)
                         THEN {<<[frame |-> f.frames[k + 1], sectors |-> S]>> :
                                 S \in TornSectors(f.frames[k + 1])}
                         ELSE {}) :
              /\ disk' = [disk EXCEPT ![Len(disk)] =
                            [f EXCEPT !.frames = SubSeq(@, 1, k), !.synced = k, !.torn = torn]]
              /\ saved' = SubSeq(saved \o Logical(st, ents), 1,
                                 Len(saved) + Len(Logical(st, ents)) - (Len(f.frames) - k))
       /\ walCount' = [walCount EXCEPT !.crashes = @ + 1,
                                       !.ops = IF idle THEN @ ELSE @ + 1]
  /\ wal' = ClosedWAL
  /\ UNCHANGED <<walRes, notWal>>

\* The snapshots a caller opens the WAL at: none (index 0) or any snapshot it
\* may hold, saved in the WAL or not.
OpenSnaps == {Entry(0, 0)} \cup WalSnaps

\* Open (write) and OpenForRead (not write) at the snapshot snap.
WalOpen ==
  /\ wal.status = "closed"
  /\ walCount.opens < WalMaxOpens
  /\ \E write \in BOOLEAN, snap \in OpenSnaps :
       LET nameIndex == searchIndex(disk, snap.Index) IN
       /\ nameIndex # 0
       /\ isValidSeq(disk, nameIndex)
       /\ wal' = [status |-> "opened", write |-> write, start |-> snap, from |-> nameIndex,
                  enti |-> 0, state |-> EmptyState, crc |-> 0, metadata |-> <<>>]
  /\ walCount' = [walCount EXCEPT !.opens = @ + 1]
  /\ UNCHANGED <<disk, walRes, saved, notWal>>

\* The records of the whole frames of the files, in order.
RECURSIVE recordsOf(_)
recordsOf(files) ==
  IF files = <<>> THEN <<>>
  ELSE [k \in 1..Len(files[1].frames) |-> files[1].frames[k].rec] \o recordsOf(Tail(files))

\* How the tail ends: with whole frames ("none"), or with a torn frame whose
\* length field is still zero ("zeroLength") or is written while a sector of
\* its data is zero ("zeroChunk").
tornKind(f) ==
  IF f.torn = <<>> THEN "none"
  ELSE IF (f.torn[1].frame.off \div minSectorSize) \in f.torn[1].sectors THEN "zeroChunk"
  ELSE "zeroLength"

\* What ReadAll leaves when it read r from files, of which f is the tail: in
\* write mode a complete read seeks to the last valid offset and zeroes the
\* rest of the tail, and leaves an encoder chained to the last CRC; in read
\* mode it closes the files. walRes keeps what the call was given (mode,
\* start, the records and the torn end of the files, what had been saved) and
\* what it returned and left.
readAllDone(files, f, r) ==
  LET f2 == IF r.ready THEN [f EXCEPT !.torn = <<>>] ELSE f IN
  /\ walRes' = [op |-> "ReadAll", write |-> wal.write, start |-> wal.start,
                recs |-> recordsOf(files), nfiles |-> Len(files), torn |-> tornKind(f),
                saved |-> saved,
                metadata |-> r.metadata, state |-> r.state, ents |-> r.ents,
                err |-> r.err, ready |-> r.ready, lastOffset |-> r.d.lastValidOff,
                tailEnd |-> endOff(f2.frames), tailTorn |-> tornKind(f2)]
  /\ wal' = IF r.ready
            THEN [wal EXCEPT !.status = "ready", !.start = Entry(0, 0), !.enti = r.enti,
                             !.crc = r.d.crc, !.metadata = r.metadata]
            ELSE IF r.early \/ r.err \notin {"nil", "ErrSnapshotNotFound"}
            THEN [ClosedWAL EXCEPT !.status = "failed", !.write = wal.write]
            ELSE ClosedWAL
  /\ disk' = [disk EXCEPT ![Len(disk)] = f2]

\* ReadAll on the opened WAL.
WalReadAll ==
  /\ wal.status = "opened"
  /\ readAllDone(SubSeq(disk, wal.from, Len(disk)), tail(disk),
                 ReadAll(SubSeq(disk, wal.from, Len(disk)), wal.start, wal.write, wal.enti))
  /\ UNCHANGED <<saved, walCount, notWal>>

WalNext ==
  \/ WalSave
  \/ WalSaveSnapshot
  \/ WalClose
  \/ Crash
  \/ WalOpen
  \/ WalReadAll

\* A created WAL, beside a log that no step touches.
WalSpecInit == LogInit /\ WalInit /\ BackendInit /\ KeyIndexInit /\ NodeInit /\ LockInit /\ CutInit /\ FpInit

SpecWAL == WalSpecInit /\ [][WalNext]_vars

(***************************************************************************)
(* The backend as a state machine: one batch transaction, the shared read  *)
(* transaction, the cache of read buffers and concurrent read transactions.*)
(***************************************************************************)
\* A concurrent read transaction that is being created holds the read lock
\* of the read transaction while it copies the read buffer.
ReadLocked == \E i \in 1..Len(readers) : readers[i].pc = "copy"

\* batchTx.Lock.
Lock ==
  /\ batchTx.pc = "unlocked" /\ ~batchTx.stopped
  /\ readTx.buf.bufVersion < MaxVersion
  /\ batchTx' = [batchTx EXCEPT !.pc = "locked"]
  /\ UNCHANGED <<heap, readTx, txReadBufferCache, bolt, readers, beOps>>
  /\ UNCHANGED notBackend

\* batchTxBuffered.UnsafePut and UnsafeSeqPut. Every put writes a value of
\* its own, the number of the mutation, so that a read tells which put it
\* reads.
bufferedPut(k, seq) ==
  LET v == beOps + 1
      r == IF seq THEN putSeq(heap, batchTx.buf, k, v) ELSE put(heap, batchTx.buf, k, v) IN
  /\ batchTx.pc = "locked"
  /\ beOps < MaxMuts
  /\ heap' = r.heap
  /\ batchTx' = [unsafePut(batchTx, k, v) EXCEPT !.buf = r.txw]
  /\ beOps' = beOps + 1
  /\ UNCHANGED <<readTx, txReadBufferCache, bolt, readers>>
  /\ UNCHANGED notBackend

BufferedUnsafePut == \E k \in Keys : bufferedPut(k, FALSE)

BufferedUnsafeSeqPut == \E k \in Keys : bufferedPut(k, TRUE)

\* batchTxBuffered.UnsafeDelete.
BufferedUnsafeDelete ==
  \E k \in Keys :
    /\ batchTx.pc = "locked"
    /\ beOps < MaxMuts
    /\ batchTx' = [UnsafeDelete(batchTx, k) EXCEPT !.pendingDeleteOperations = @ + 1]
    /\ beOps' = beOps + 1
    /\ UNCHANGED <<heap, readTx, txReadBufferCache, bolt, readers>>
    /\ UNCHANGED notBackend

\* batchTxBuffered.Unlock up to the end of the writeback: the write buffer
\* goes to the read buffer under the lock of the read transaction.
UnlockWriteback ==
  /\ batchTx.pc = "locked"
  /\ IF batchTx.pending # 0
     THEN /\ ~ReadLocked
          /\ \E w \in writeback(heap, batchTx.buf, readTx.buf) :
               /\ heap' = w.heap
               /\ readTx' = [readTx EXCEPT !.buf = w.txr]
               /\ batchTx' = [batchTx EXCEPT
                      !.buf = w.txw,
                      !.pc = IF batchTx.pending >= batchLimit
                                \/ batchTx.pendingDeleteOperations > 0
                             THEN "commit" ELSE "unlocked"]
     ELSE /\ batchTx' = [batchTx EXCEPT !.pc = "unlocked"]
          /\ UNCHANGED <<heap, readTx>>
  /\ UNCHANGED <<txReadBufferCache, bolt, readers, beOps>>
  /\ UNCHANGED notBackend

commitStep(stop, pc) ==
  LET c == unsafeCommit(heap, batchTx, readTx, bolt, stop) IN
  /\ ~ReadLocked
  /\ heap' = c.heap
  /\ batchTx' = [c.t EXCEPT !.pc = pc]
  /\ readTx' = c.rt
  /\ bolt' = c.b
  /\ UNCHANGED <<txReadBufferCache, readers, beOps>>
  /\ UNCHANGED notBackend

\* The rest of batchTxBuffered.Unlock: t.commit(false), then the unlock.
UnlockCommit == batchTx.pc = "commit" /\ commitStep(FALSE, "unlocked")

\* batchTxBuffered.Commit, of the run loop of the backend or of ForceCommit.
Commit ==
  /\ batchTx.pc = "unlocked" /\ ~batchTx.stopped
  /\ Len(bolt.txs) <= MaxCommits
  /\ commitStep(FALSE, "unlocked")

\* batchTxBuffered.CommitAndStop, of the run loop when the backend closes.
CommitAndStop ==
  /\ batchTx.pc = "unlocked" /\ ~batchTx.stopped
  /\ commitStep(TRUE, "unlocked")

\* The goroutine that unsafeCommit starts: when the readers of the store
\* transaction are done, it rolls the transaction back.
Rollback ==
  \E tx \in 1..Len(bolt.txs) :
    /\ bolt.txs[tx].closing /\ ~bolt.txs[tx].rolledBack
    /\ bolt.txs[tx].wg = 0
    /\ bolt' = [bolt EXCEPT !.txs[tx].rolledBack = TRUE]
    /\ UNCHANGED <<heap, batchTx, readTx, txReadBufferCache, readers, beOps>>
    /\ UNCHANGED notBackend

\* A reader that has ended.
doneReader == [pc |-> "done", buf |-> newTxReadBuffer, tx |-> 0, curCacheVer |-> 0]

\* What ConcurrentReadTx holds of the new reader: where it is, its buffer,
\* its store transaction and the version of the cache it found.
newReader(pc, buf, curCacheVer) ==
  [pc |-> pc, buf |-> buf, tx |-> readTx.tx, curCacheVer |-> curCacheVer]

\* backend.ConcurrentReadTx up to the point where it gives up the lock of
\* the cache to copy the read buffer, or to its end when it does not.
ConcurrentReadTx ==
  LET curCache == txReadBufferCache.buf
      curCacheVer == txReadBufferCache.bufVersion
      curBufVer == readTx.buf.bufVersion
      isEmptyCache == curCache = <<>>
      isStaleCache == curCacheVer # curBufVer IN
  /\ Len(readers) < MaxReaders
  /\ ~batchTx.stopped
  /\ IF isEmptyCache
     THEN LET c == unsafeCopy(heap, readTx.buf) IN
          /\ heap' = c.heap
          /\ txReadBufferCache' = [buf |-> <<c.buf>>, bufVersion |-> curBufVer]
          /\ readers' = Append(readers, newReader("open", c.buf, 0))
     ELSE IF isStaleCache
     THEN /\ readers' = Append(readers, newReader("copy", newTxReadBuffer, curCacheVer))
          /\ UNCHANGED <<heap, txReadBufferCache>>
     ELSE /\ readers' = Append(readers, newReader("open", curCache[1], 0))
          /\ txReadBufferCache' = [buf |-> curCache, bufVersion |-> curBufVer]
          /\ UNCHANGED heap
  /\ bolt' = txWgAdd(bolt, readTx.tx)
  /\ UNCHANGED <<batchTx, readTx, beOps>>
  /\ UNCHANGED notBackend

\* The rest of ConcurrentReadTx when the cache was stale: the copy, and the
\* cache takes it when no other reader has changed the cache meanwhile.
ConcurrentReadTxCopy ==
  \E i \in 1..Len(readers) :
    LET c == unsafeCopy(heap, readTx.buf) IN
    /\ readers[i].pc = "copy"
    /\ heap' = c.heap
    /\ txReadBufferCache' =
         IF readers[i].curCacheVer = txReadBufferCache.bufVersion
         THEN [buf |-> <<c.buf>>, bufVersion |-> readTx.buf.bufVersion]
         ELSE txReadBufferCache
    /\ readers' = [readers EXCEPT ![i] = newReader("open", c.buf, 0)]
    /\ UNCHANGED <<batchTx, readTx, bolt, beOps>>
    /\ UNCHANGED notBackend

\* concurrentReadTx.RUnlock: the reader ends.
RUnlock ==
  \E i \in 1..Len(readers) :
    /\ readers[i].pc = "open"
    /\ readers' = [readers EXCEPT ![i] = doneReader]
    /\ bolt' = txWgDone(bolt, readers[i].tx)
    /\ UNCHANGED <<heap, batchTx, readTx, txReadBufferCache, beOps>>
    /\ UNCHANGED notBackend

BackendNext ==
  \/ Lock
  \/ BufferedUnsafePut
  \/ BufferedUnsafeSeqPut
  \/ BufferedUnsafeDelete
  \/ UnlockWriteback
  \/ UnlockCommit
  \/ Commit
  \/ CommitAndStop
  \/ Rollback
  \/ ConcurrentReadTx
  \/ ConcurrentReadTxCopy
  \/ RUnlock

BackendSpecInit == LogInit /\ WalInit /\ BackendInit /\ KeyIndexInit /\ NodeInit /\ LockInit /\ CutInit /\ FpInit

SpecBackend == BackendSpecInit /\ [][BackendNext]_vars

(***************************************************************************)
(* The keyIndex as a state machine: the calls the index makes on it, over  *)
(* every argument within the bounds. A call that panics ends the process,  *)
(* so only the calls that return are steps.                                *)
(***************************************************************************)
AtRevs == 0..MaxMain

KeyIndexPut ==
  \E main \in 1..MaxMain, sub \in 0..MaxSub :
    /\ keyIndexCount < MaxRevisions
    /\ GreaterThan([main |-> main, sub |-> sub], keyIndex.modified)
    /\ keyIndex' = keyIndexPut(keyIndex, main, sub)
    /\ keyIndexOp' = [op |-> "put", main |-> main, sub |-> sub]
    /\ keyIndexCount' = keyIndexCount + 1
    /\ UNCHANGED notKeyIndex

KeyIndexTombstone ==
  \E main \in 1..MaxMain, sub \in 0..MaxSub :
    LET t == tombstone(keyIndex, main, sub) IN
    /\ keyIndexCount < MaxRevisions
    /\ Len(keyIndex.generations) > 0
    /\ ~keyIndexIsEmpty(keyIndex)
    /\ \/ generationIsEmpty(keyIndex.generations[Len(keyIndex.generations)])
       \/ GreaterThan([main |-> main, sub |-> sub], keyIndex.modified)
    /\ keyIndex' = t.ki
    /\ keyIndexOp' = [op |-> "tombstone", main |-> main, sub |-> sub, err |-> t.err]
    /\ keyIndexCount' = keyIndexCount + 1
    /\ UNCHANGED notKeyIndex

KeyIndexGet ==
  \E atRev \in AtRevs :
    /\ ~keyIndexIsEmpty(keyIndex)
    /\ keyIndexOp' = [op |-> "get", atRev |-> atRev, err |-> get(keyIndex, atRev).err]
    /\ UNCHANGED <<keyIndex, keyIndexCount, notKeyIndex>>

\* compact and keep, called as the index calls them, with an available set
\* that is empty.
KeyIndexCompact ==
  \E atRev \in AtRevs :
    LET c == compact(keyIndex, atRev, {}) IN
    /\ Len(keyIndex.generations) > 0
    /\ ~keyIndexIsEmpty(keyIndex)
    /\ keyIndex' = c.ki
    /\ keyIndexOp' = [op |-> "compact", atRev |-> atRev, available |-> c.available]
    /\ UNCHANGED <<keyIndexCount, notKeyIndex>>

KeyIndexKeep ==
  \E atRev \in AtRevs :
    LET k == keep(keyIndex, atRev, {}) IN
    /\ Len(keyIndex.generations) > 0
    /\ keyIndex' = k.ki
    /\ keyIndexOp' = [op |-> "keep", atRev |-> atRev, available |-> k.available]
    /\ UNCHANGED <<keyIndexCount, notKeyIndex>>

KeyIndexNext ==
  \/ KeyIndexPut
  \/ KeyIndexTombstone
  \/ KeyIndexGet
  \/ KeyIndexCompact
  \/ KeyIndexKeep

KeyIndexSpecInit == LogInit /\ WalInit /\ BackendInit /\ KeyIndexInit /\ NodeInit /\ LockInit /\ CutInit /\ FpInit

SpecKeyIndex == KeyIndexSpecInit /\ [][KeyIndexNext]_vars

(***************************************************************************)
(* The raftNode as a state machine: raft appends to the log and commits,   *)
(* and the loop of serveChannels takes a Ready, saves it to the WAL,       *)
(* appends it to the storage, publishes the committed entries and          *)
(* advances. The process ends at a panic or a fatal error.                 *)
(***************************************************************************)
\* A step of the node to n, with the log at l, the WAL handle at w over files.
NodeStep(n, l, w, files) ==
  /\ node' = n
  /\ raftLog' = l
  /\ wal' = w
  /\ disk' = files
  /\ UNCHANGED <<logOp, walRes, walCount, backendVars, keyIndexVars, lockVars, cutVars, fpVars>>

\* rc.node.Propose: raft appends the proposal to its log after the last
\* entry, in a term that is not below the term of that entry.
Propose ==
  \E t \in 1..MaxTerm :
    LET li == lastIndex(raftLog)
        r == append(raftLog, <<Entry(li + 1, t)>>) IN
    /\ li < MaxIndex
    /\ t >= term(raftLog, li).t
    /\ ~r.panic
    /\ LogStep(r.l)

\* rd := <-rc.node.Ready()
NodeReady ==
  /\ node.pc = "idle"
  /\ node.readies < MaxReadies
  /\ ~nextEnts(raftLog).panic
  /\ LET rd == newReady(raftLog, node.prevHardSt) IN
     /\ rd # NoReady
     /\ NodeStep([node EXCEPT !.pc = "save", !.rd = rd, !.readies = @ + 1,
                              !.prevHardSt = IF IsEmptyHardState(rd.HardState)
                                             THEN @ ELSE rd.HardState],
                 raftLog, wal, disk)
  /\ UNCHANGED saved

\* rc.wal.Save(rd.HardState, rd.Entries): the records are written, or the
\* call returns an error of the file with nothing written; serveChannels
\* does not look at what Save returns.
NodeSave ==
  /\ node.pc = "save"
  /\ \E failed \in BOOLEAN :
       LET r == Save(wal, disk, node.rd.HardState, node.rd.Entries)
           n == [node EXCEPT !.pc = "append", !.saveErr = @ \/ failed] IN
       /\ failed => node.rd.Entries # <<>>
       /\ IF failed
          THEN NodeStep(n, raftLog, wal, disk) /\ UNCHANGED saved
          ELSE /\ NodeStep(n, raftLog, r.w, r.files)
               /\ saved' = saved \o Logical(node.rd.HardState, node.rd.Entries)

\* rc.raftStorage.Append(rd.Entries)
NodeAppend ==
  /\ node.pc = "append"
  /\ LET r == msAppend(raftLog.storage, node.rd.Entries) IN
     /\ ~r.panic
     /\ NodeStep([node EXCEPT !.pc = "publish"], [raftLog EXCEPT !.storage = r.ms],
                 wal, disk)
  /\ UNCHANGED saved

\* rc.publishEntries(rc.entriesToApply(rd.CommittedEntries))
NodePublish ==
  /\ node.pc = "publish"
  /\ LET r == entriesToApply(node.appliedIndex, node.rd.CommittedEntries) IN
     /\ ~r.fatal
     /\ NodeStep([publishEntries(node, r.nents) EXCEPT !.pc = "advance"],
                 raftLog, wal, disk)
  /\ UNCHANGED saved

\* rc.node.Advance()
NodeAdvance ==
  /\ node.pc = "advance"
  /\ LET r == advance(raftLog, node.rd) IN
     /\ ~r.panic
     /\ NodeStep([node EXCEPT !.pc = "idle", !.rd = NoReady], r.l, wal, disk)
  /\ UNCHANGED saved

NodeNext ==
  \/ Propose
  \/ CommitTo
  \/ NodeReady
  \/ NodeSave
  \/ NodeAppend
  \/ NodePublish
  \/ NodeAdvance

NodeSpecInit == LogInit /\ WalInit /\ BackendInit /\ KeyIndexInit /\ NodeInit /\ LockInit /\ CutInit /\ FpInit

SpecNode == NodeSpecInit /\ [][NodeNext]_vars

(***************************************************************************)
(* The threads of the backend and its locks. A Lock of a read-write mutex  *)
(* that cannot be had at once is pending, and a pending Lock keeps new     *)
(* RLocks out, as sync.RWMutex does.                                       *)
(***************************************************************************)
\* The lock l is free for a Lock: no thread holds it in any mode.
FreeForLock(l) ==
  \A j \in Threads : ~Holds(threads[j], l, "Lock") /\ ~Holds(threads[j], l, "RLock")

\* The lock l is free for an RLock of the thread i: no thread holds it
\* locked and no Lock of another thread is pending on it.
FreeForRLock(i, l) ==
  /\ \A j \in Threads : ~Holds(threads[j], l, "Lock")
  /\ \A j \in Threads \ {i} :
       ~(threads[j].waiting /\ nextCall(threads[j]).l = l)

\* A thread starts a call of the backend.
StartOp ==
  \E i \in Threads, op \in LockOps :
    /\ threads[i].op = "none"
    /\ threads' = [threads EXCEPT ![i] = [op |-> op, pc |-> 0, waiting |-> FALSE]]
    /\ UNCHANGED <<raftLog, logOp, walVars, backendVars, keyIndexVars, nodeVars, cutVars, fpVars>>

\* Lock and RLock: the thread has the lock when it is free for it.
Acquire ==
  \E i \in Threads :
    /\ threads[i].op # "none"
    /\ LET s == nextCall(threads[i]) IN
       \/ s.a = "Lock" /\ FreeForLock(s.l)
       \/ s.a = "RLock" /\ FreeForRLock(i, s.l)
    /\ threads' = [threads EXCEPT ![i] = stepped(@)]
    /\ UNCHANGED <<raftLog, logOp, walVars, backendVars, keyIndexVars, nodeVars, cutVars, fpVars>>

\* Lock of a read-write mutex that is held: the Lock is pending.
LockWait ==
  \E i \in Threads :
    /\ threads[i].op # "none" /\ ~threads[i].waiting
    /\ LET s == nextCall(threads[i]) IN
       s.a = "Lock" /\ s.l \in RWLocks /\ ~FreeForLock(s.l)
    /\ threads' = [threads EXCEPT ![i].waiting = TRUE]
    /\ UNCHANGED <<raftLog, logOp, walVars, backendVars, keyIndexVars, nodeVars, cutVars, fpVars>>

\* Unlock and RUnlock.
Release ==
  \E i \in Threads :
    /\ threads[i].op # "none"
    /\ nextCall(threads[i]).a \in {"Unlock", "RUnlock"}
    /\ threads' = [threads EXCEPT ![i] = stepped(@)]
    /\ UNCHANGED <<raftLog, logOp, walVars, backendVars, keyIndexVars, nodeVars, cutVars, fpVars>>

LockNext == StartOp \/ Acquire \/ LockWait \/ Release

LockSpecInit == LogInit /\ WalInit /\ BackendInit /\ KeyIndexInit /\ NodeInit /\ LockInit /\ CutInit /\ FpInit

SpecLocks == LockSpecInit /\ [][LockNext]_vars


(***************************************************************************)
(* The steps of WAL.cut and the crash.                                     *)
(***************************************************************************)
\* A step of cut from the place pc: the cut after it.
cutAt(pc, next) == cutting.pc = pc /\ cutting' = next /\ UNCHANGED notCut

\* The tail is truncated at its offset and synced.
CutTruncateSync ==
  cutAt("truncate",
        [cutting EXCEPT !.pc = "open",
                        !.old = [@ EXCEPT !.size = endOff(cutting.old.frames),
                                          !.synced = Len(cutting.old.frames)]])

\* fp.Open gives the temporary file, which becomes the tail; the encoder
\* starts from the running CRC.
CutOpen ==
  cutAt("open",
        [cutting EXCEPT !.pc = "header",
                        !.prevCrc = cutting.w.crc,
                        !.tmp = <<NewFile(cutting.old.seq + 1, cutting.w.enti + 1)>>])

\* saveCrc, the metadata record and saveState, into the temporary file.
CutWriteHeader ==
  LET c == saveCrc(cutting.tmp[1], cutting.prevCrc, cutting.prevCrc)
      m == encode(c.f, c.crc, "metadata", cutting.w.metadata)
      s == saveState(m.f, m.crc, cutting.w.state) IN
  cutAt("header", [cutting EXCEPT !.pc = "sync", !.tmp = <<s.f>>, !.w.crc = s.crc])

\* w.sync on the temporary file.
CutSync ==
  cutAt("sync", [cutting EXCEPT !.pc = "rename", !.tmp[1].synced = Len(cutting.tmp[1].frames)])

\* A rename that does not wait for the header and its sync.
CutRenameEarly ==
  /\ cutting.pc \in {"header", "sync", "rename"}
  /\ cutting' = [cutting EXCEPT !.pc = "fsyncDir", !.renamed = TRUE]
  /\ UNCHANGED notCut

\* os.Rename of the temporary file to the name of the segment.
CutRename ==
  cutAt("rename", [cutting EXCEPT !.pc = "fsyncDir", !.renamed = TRUE])

\* fileutil.Fsync of the directory; the rest of cut opens the segment again
\* under its name.
CutFsyncDir ==
  cutAt("fsyncDir", [cutting EXCEPT !.pc = "done", !.dirSynced = TRUE])

\* The process dies inside cut: of the frames of the tail and of the new
\* file that were not synced, some first ones reach the disk; a rename that
\* the directory was not synced after reaches the disk or does not.
CutCrash ==
  /\ cutting.pc \notin {"idle", "done", "crashed"}
  /\ \E ko \in cutting.old.synced..Len(cutting.old.frames),
        final \in (IF cutting.renamed THEN {TRUE} ELSE {}) \cup
                  (IF cutting.dirSynced THEN {} ELSE {FALSE}) :
       \E tmp \in IF cutting.tmp = <<>> THEN {<<>>}
                  ELSE {<<[cutting.tmp[1] EXCEPT !.frames = SubSeq(@, 1, k), !.synced = k]>> :
                          k \in cutting.tmp[1].synced..Len(cutting.tmp[1].frames)} :
         cutting' = [cutting EXCEPT
                       !.pc = "crashed",
                       !.old = [@ EXCEPT !.frames = SubSeq(@, 1, ko), !.synced = ko],
                       !.tmp = tmp,
                       !.finalName = final]
  /\ UNCHANGED notCut

CutNext ==
  \/ CutTruncateSync
  \/ CutOpen
  \/ CutWriteHeader
  \/ CutSync
  \/ CutRename
  \/ CutFsyncDir
  \/ CutCrash

CutSpecInit ==
  /\ LogInit /\ WalInit /\ BackendInit /\ KeyIndexInit /\ NodeInit /\ LockInit /\ FpInit
  /\ cutting \in CutStarts

SpecCut == CutSpecInit /\ [][CutNext]_vars


(***************************************************************************)
(* The steps of the filePipeline.                                          *)
(***************************************************************************)
\* alloc in run: the file is locked and preallocated and run goes to its
\* select, or LockFile fails, or Preallocate fails and leaves the file
\* closed in the directory; on a failure run sends the error to errc.
FpAlloc ==
  LET name == fp.count % 2 IN
  /\ fp.run = "alloc"
  /\ \/ fp' = [fp EXCEPT !.run = "select", !.count = @ + 1, !.pending = <<name>>,
                         !.onDisk = @ \cup {name}]
     \/ \E e \in {"LockFile", "Preallocate"} :
          fp' = [fp EXCEPT !.run = "failed", !.allocErr = e, !.errc = <<e>>,
                           !.onDisk = IF e = "Preallocate" THEN @ \cup {name} ELSE @]
  /\ UNCHANGED notFp

\* The return of run after the error: the deferred close of errc.
FpRunExit ==
  /\ fp.run = "failed"
  /\ fp' = [fp EXCEPT !.run = "done", !.errcClosed = TRUE]
  /\ UNCHANGED notFp

\* A run that returns at the close of donec and leaves its file.
FpRunDoneKeepingFile ==
  /\ fp.run = "select" /\ fp.donec
  /\ fp' = [fp EXCEPT !.run = "done", !.errcClosed = TRUE]
  /\ UNCHANGED notFp

\* The case <-fp.donec of the select of run: the file is removed and
\* closed, run returns and errc is closed.
FpRunDone ==
  /\ fp.run = "select" /\ fp.donec
  /\ fp' = [fp EXCEPT !.run = "done", !.errcClosed = TRUE, !.pending = <<>>,
                      !.onDisk = @ \ {fp.pending[1]}]
  /\ UNCHANGED notFp

\* filePipeline.Open: the select takes the file that run sends on filec
\* (the caller renames it, so that it leaves the temporary names), or the
\* error in errc, or the zero value of errc when it is closed and empty.
FpOpen ==
  /\ Len(fp.opened) < FpMaxOpens
  /\ \/ /\ fp.run = "select"
        /\ fp' = [fp EXCEPT !.run = "alloc", !.pending = <<>>,
                            !.onDisk = @ \ {fp.pending[1]},
                            !.opened = Append(@, [f |-> "file", err |-> "nil"])]
     \/ /\ fp.errc # <<>>
        /\ fp' = [fp EXCEPT !.errc = <<>>,
                            !.opened = Append(@, [f |-> "nil", err |-> fp.errc[1]])]
     \/ /\ fp.errc = <<>> /\ fp.errcClosed
        /\ fp' = [fp EXCEPT !.opened = Append(@, NoFile)]
  /\ UNCHANGED notFp

\* filePipeline.Close up to its receive: donec is closed.
FpCloseDonec ==
  /\ fp.closer = "idle"
  /\ fp' = [fp EXCEPT !.donec = TRUE, !.closer = "waiting"]
  /\ UNCHANGED notFp

\* The receive of Close from errc: the error in it, or nil when it is
\* closed and empty.
FpCloseRecv ==
  /\ fp.closer = "waiting"
  /\ \/ /\ fp.errc # <<>>
        /\ fp' = [fp EXCEPT !.errc = <<>>, !.closer = "returned", !.closeErr = fp.errc[1]]
     \/ /\ fp.errc = <<>> /\ fp.errcClosed
        /\ fp' = [fp EXCEPT !.closer = "returned"]
  /\ UNCHANGED notFp

FpNext ==
  \/ FpAlloc
  \/ FpRunExit
  \/ FpRunDone
  \/ FpOpen
  \/ FpCloseDonec
  \/ FpCloseRecv

FpSpecInit ==
  LogInit /\ WalInit /\ BackendInit /\ KeyIndexInit /\ NodeInit /\ LockInit /\ CutInit /\ FpInit

SpecFp == FpSpecInit /\ [][FpNext]_vars

\* The goroutine of run and a Close that has closed donec are not held up
\* for ever when they can go on.
SpecFpLive ==
  /\ SpecFp
  /\ WF_vars(FpAlloc) /\ WF_vars(FpRunExit) /\ WF_vars(FpRunDone) /\ WF_vars(FpCloseRecv)


(***************************************************************************)
(* Properties of the replicated log.                                       *)
(***************************************************************************)
LogInvariant(l) == l.applied <= l.committed /\ l.committed <= lastIndex(l)

\* The step is a restore(s) with s.index below the bound.
RestoreBelow(bound) ==
  \E i \in 1..MaxIndex, t \in 1..MaxTerm :
    i < bound /\ raftLog' = restore(raftLog, Entry(i, t))

\* The step is a stableTo that drops unstable entries while a snapshot is
\* still pending in the unstable tail.
StableToUnderSnapshot ==
  /\ raftLog.unstable.snapshot # <<>>
  /\ raftLog' # raftLog
  /\ \E i \in 0..MaxIndex, t \in 0..MaxTerm : raftLog' = stableTo(raftLog, i, t)

\* C1 as stated: in every reachable state of the replicated log,
\* applied <= committed <= lastIndex().
C1_AppliedCommittedLast == LogInvariant(raftLog)

\* Every call that returns preserves applied <= committed <= lastIndex(),
\* except restore(s) with s.index < applied and a stableTo that empties the
\* unstable entries while a snapshot is pending.
C1_InvariantPreserved ==
  [][(LogInvariant(raftLog) /\ ~RestoreBelow(raftLog.applied) /\ ~StableToUnderSnapshot)
       => LogInvariant(raftLog')]_vars

\* A restore at or above applied has acted and the three pointers differ.
C1_Witness ==
  /\ raftLog.unstable.snapshot # <<>>
  /\ 1 <= raftLog.applied
  /\ raftLog.applied < raftLog.committed
  /\ raftLog.committed < lastIndex(raftLog)

\* C2 as stated: no call leaves committed or applied smaller than before.
C2_Monotone ==
  [][raftLog'.committed >= raftLog.committed /\ raftLog'.applied >= raftLog.applied]_vars

\* No call other than restore(s) with s.index < committed leaves committed or
\* applied smaller than before.
C2_MonotoneButRestore ==
  [][~RestoreBelow(raftLog.committed)
       => (raftLog'.committed >= raftLog.committed /\ raftLog'.applied >= raftLog.applied)]_vars

\* committed and applied have both advanced, and a restore has acted.
C2_Witness ==
  /\ raftLog.unstable.snapshot # <<>>
  /\ raftLog.applied >= 1
  /\ raftLog.committed > raftLog.unstable.snapshot[1].Index

\* The entries of l up to index n have the same term in l2.
SameTermsUpTo(l, l2, n) == \A j \in 0..Min(n, lastIndex(l)) : term(l2, j) = term(l, j)

ScenarioCall(c) ==
  /\ logOp.op = "maybeAppend"
  /\ logOp.pre = StableLog(<<1, 1, 1>>, c)
  /\ logOp.index = 1 /\ logOp.logTerm = 1 /\ logOp.committed = 2
  /\ logOp.ents = Ents(2, <<2, 2, 2>>)

\* The call returned 4 and left the log [(1,1),(2,2),(3,2),(4,2)], committed 2.
ScenarioResult ==
  /\ ~logOp.panic /\ logOp.ok /\ logOp.ret = 4
  /\ allEntries(raftLog) = [ents |-> Ents(1, <<1, 2, 2, 2>>), panic |-> FALSE]
  /\ raftLog.committed = 2

\* C4 as stated: with the stable log [(1,1),(2,1),(3,1)] and committed = 2,
\* maybeAppend(1, 1, 2, [(2,2),(3,2),(4,2)]) succeeds and returns 4, the log
\* becomes [(1,1),(2,2),(3,2),(4,2)] and committed stays 2.
C4_ScenarioAsStated == ScenarioCall(2) => ScenarioResult

\* C4 as amended: with committed = 2 the call panics and leaves the log as it
\* was; with committed = 1 it succeeds and returns 4, the log becomes
\* [(1,1),(2,2),(3,2),(4,2)] and committed becomes 2.
C4_Scenario ==
  /\ ScenarioCall(2) => (logOp.panic /\ raftLog = logOp.pre)
  /\ ScenarioCall(1) => ScenarioResult

\* The scenario's call has been made on the log committed up to 1.
C4_Witness == ScenarioCall(1) /\ raftLog # logOp.pre

\* C6 as stated: when maybeAppend succeeds, committed afterwards equals
\* min(leaderCommit, prevIndex + |ents|).
C6_CommittedIsMin ==
  (logOp.op = "maybeAppend" /\ logOp.ok) =>
    raftLog.committed = Min(logOp.committed, logOp.index + Len(logOp.ents))

\* C6 as amended: when maybeAppend succeeds, committed afterwards equals the
\* larger of its value before the call and min(leaderCommit, prevIndex + |ents|).
C6_CommittedIsMaxOfMin ==
  (logOp.op = "maybeAppend" /\ logOp.ok) =>
    raftLog.committed =
      Max(logOp.pre.committed, Min(logOp.committed, logOp.index + Len(logOp.ents)))

\* A maybeAppend has succeeded, appended entries and raised committed.
C6_Witness ==
  /\ logOp.op = "maybeAppend" /\ logOp.ok
  /\ logOp.ents # <<>>
  /\ logOp.pre.committed >= 1
  /\ raftLog.committed > logOp.pre.committed

(***************************************************************************)
(* Properties of the WAL.                                                  *)
(***************************************************************************)
\* The entries among the records recs, in order.
EntriesOf(recs) ==
  LET es == SelectSeq(recs, LAMBDA x : x.kind = "entry") IN
  [k \in 1..Len(es) |-> es[k].v]

\* The entries that a log holds after the entries es were written to it one
\* after the other above the snapshot index s: an entry stays unless a later
\* one has its index or a lower one.
Surviving(es, s) ==
  LET K == {k \in DOMAIN es :
              /\ es[k].Index > s
              /\ \A j \in (k + 1)..Len(es) : es[j].Index > s => es[j].Index > es[k].Index} IN
  [i \in 1..Cardinality(K) |->
     es[CHOOSE k \in K : Cardinality({j \in K : j <= k}) = i]]

\* The last state among the records recs, or the empty one.
LastState(recs) ==
  LET K == {k \in DOMAIN recs : recs[k].kind = "state"} IN
  IF K = {} THEN EmptyState ELSE recs[CHOOSE k \in K : \A j \in K : j <= k].v

\* ReadAll ran at snapshot index 0 over a WAL that only Save wrote to.
SavesOnly ==
  /\ walRes.op = "ReadAll"
  /\ walRes.start = Entry(0, 0)
  /\ \A k \in DOMAIN walRes.saved : walRes.saved[k].kind # "snapshot"

\* C7: after any sequence of Save calls and a crash at a frame boundary (or
\* none), ReadAll on the reopened WAL returns without error the entries and the
\* state of the saved records that reached the disk, a prefix of what was
\* saved, with the metadata, whatever the number of segments.
C7_RoundTrip ==
  (SavesOnly /\ walRes.torn = "none") =>
    /\ walRes.err = "nil"
    /\ walRes.ents = Surviving(EntriesOf(walRes.saved), 0)
    /\ walRes.state = LastState(walRes.saved)
    /\ walRes.metadata = Metadata

\* After a crash inside a Save, ReadAll in write mode has read two segments
\* and returned entries of which one replaced an earlier one.
C7_Witness ==
  /\ SavesOnly /\ walRes.torn = "none" /\ walRes.write
  /\ walCount.crashes = 1
  /\ walRes.nfiles = 2
  /\ walRes.ents # <<>>
  /\ Len(walRes.ents) < Len(EntriesOf(walRes.saved))

\* The terms of the Snapshot records with the index of start among recs.
snapTerms(recs, start) ==
  {recs[k].data[1].v.Term :
     k \in {j \in DOMAIN recs : /\ recs[j].type = "snapshot"
                                /\ recs[j].data[1].v.Index = start.Index}}

\* What the records that ReadAll was given hold, and the entries among them.
ReadItems == [k \in DOMAIN walRes.recs |->
                IF walRes.recs[k].data = <<>>
                THEN [kind |-> "none"] ELSE walRes.recs[k].data[1]]

ReadEntries == EntriesOf(ReadItems)

\* The k-th entry read lies above the snapshot and past the end of the entries
\* that the ones before it leave: it would leave a gap.
LeavesGap(es, s, k) ==
  es[k].Index > s /\ es[k].Index - s - 1 > Len(Surviving(SubSeq(es, 1, k - 1), s))

\* ReadAll ran over records that it reads without error, a Snapshot record of
\* the requested snapshot among them, up to a tail that ends as torn tells:
\* "zeroChunk" is a torn record whose length field is written and whose data
\* has a zero sector, so that its decoding fails.
TornTail(write, torn) ==
  /\ walRes.op = "ReadAll"
  /\ walRes.write = write
  /\ walRes.torn = torn
  /\ snapTerms(walRes.recs, walRes.start) = {walRes.start.Term}
  /\ \A k \in DOMAIN ReadEntries : ~LeavesGap(ReadEntries, walRes.start.Index, k)

\* The call returned the entries and the state before the torn record, and no error.
TornTailRead ==
  /\ walRes.err = "nil"
  /\ walRes.ents = Surviving(ReadEntries, walRes.start.Index)
  /\ walRes.state = LastState(ReadItems)

\* The WAL is ready for append at the end of the last valid record, and the
\* rest of the tail is zero.
PositionedForAppend ==
  /\ walRes.ready
  /\ walRes.lastOffset = walRes.tailEnd
  /\ walRes.tailTorn = "none"

\* C8 as stated: when the last record of the last segment is torn, ReadAll on
\* a WAL opened for writing returns the entries before the torn record with no
\* error, positioned for append after the last valid record, the rest zeroed.
C8_TornTailInWriteMode ==
  TornTail(TRUE, "zeroChunk") => (TornTailRead /\ PositionedForAppend)

\* C8 as amended: when the last record of the last segment is torn, ReadAll on
\* a WAL opened for reading returns the entries before the torn record with no
\* error; on a WAL opened for writing it returns ErrUnexpectedEOF and no
\* entries, and leaves the file as it is, with no encoder to append with.
\* Only a torn record whose length field is still zero reads as the end of
\* the log in write mode, which then zeroes it and is positioned for append.
C8_TornTail ==
  /\ TornTail(FALSE, "zeroChunk") => TornTailRead
  /\ TornTail(TRUE, "zeroChunk") =>
       /\ walRes.err = "ErrUnexpectedEOF"
       /\ walRes.ents = <<>>
       /\ ~walRes.ready
       /\ walRes.tailTorn = "zeroChunk"
  /\ TornTail(TRUE, "zeroLength") => (TornTailRead /\ PositionedForAppend)

\* ReadAll in write mode has met a torn entry after an entry that it had read.
C8_Witness ==
  /\ TornTail(TRUE, "zeroChunk")
  /\ ReadEntries # <<>>
  /\ walRes.err = "ErrUnexpectedEOF"

\* C9: in write mode and in read mode, ReadAll returns ErrSnapshotNotFound when
\* it read no Snapshot record with the index of the requested snapshot, and
\* ErrSnapshotMismatch when it read one with a different term.
C9_SnapshotErrors ==
  (walRes.op = "ReadAll" /\ walRes.torn = "none" /\ walRes.err # "ErrSliceOutOfRange") =>
    LET terms == snapTerms(walRes.recs, walRes.start) IN
    /\ terms = {} => walRes.err = "ErrSnapshotNotFound"
    /\ terms \ {walRes.start.Term} # {} => walRes.err = "ErrSnapshotMismatch"

\* In read mode ReadAll returns ErrSnapshotNotFound when it read no Snapshot
\* record with the requested index; in both modes it returns
\* ErrSnapshotMismatch when it read one with a different term.
C9_SnapshotErrorsInReadMode ==
  (walRes.op = "ReadAll" /\ walRes.torn = "none" /\ walRes.err # "ErrSliceOutOfRange") =>
    LET terms == snapTerms(walRes.recs, walRes.start) IN
    /\ (terms = {} /\ ~walRes.write) => walRes.err = "ErrSnapshotNotFound"
    /\ (terms = {} /\ walRes.write) => walRes.err = "nil"
    /\ terms \ {walRes.start.Term} # {} => walRes.err = "ErrSnapshotMismatch"

\* C10: ReadAll returns only entries above snap.index, dense from
\* snap.index + 1; a later Entry record with the index of an entry read
\* earlier replaces it and drops the entries above it; an Entry record that
\* would leave a gap yields ErrSliceOutOfRange.
C10_EntriesRead ==
  (walRes.op = "ReadAll" /\ walRes.torn = "none" /\ walRes.err # "ErrSnapshotMismatch") =>
    LET s == walRes.start.Index
        es == ReadEntries IN
    IF \E k \in DOMAIN es : LeavesGap(es, s, k)
    THEN walRes.err = "ErrSliceOutOfRange" /\ walRes.ents = <<>>
    ELSE /\ walRes.err \in {"nil", "ErrSnapshotNotFound"}
         /\ \A k \in DOMAIN walRes.ents : walRes.ents[k].Index = s + k
         /\ walRes.ents = Surviving(es, s)

\* ReadAll at a snapshot above index 0 has skipped an entry, replaced an entry
\* by a later record with its index, and returned entries.
C10_Witness ==
  /\ walRes.op = "ReadAll" /\ walRes.torn = "none"
  /\ walRes.err = "nil"
  /\ walRes.start.Index >= 1
  /\ walRes.ents # <<>>
  /\ \E k \in DOMAIN ReadEntries : ReadEntries[k].Index <= walRes.start.Index
  /\ Len(walRes.ents) + walRes.start.Index < Len(ReadEntries)

\* ReadAll has met an Entry record that leaves a gap.
C10_GapReached ==
  walRes.op = "ReadAll" /\ walRes.err = "ErrSliceOutOfRange"

(***************************************************************************)
(* Properties of the backend.                                              *)
(***************************************************************************)
\* The reader i is open.
IsOpen(i) == i \in 1..Len(readers) /\ readers[i].pc = "open"

\* What the open reader i reads.
ReaderView(i) == ViewOf(heap, bolt, readers[i])

\* What the reader rd holds: the content of its bucket buffer and its store
\* transaction, with what that transaction sees and whether it is rolled
\* back.
ReaderState(h, b, rd) ==
  [buf |-> IF rd.buf.bucket = 0 THEN <<>> ELSE <<h[rd.buf.bucket]>>,
   view |-> b.txs[rd.tx].view,
   rolledBack |-> b.txs[rd.tx].rolledBack]

\* C11: no step changes what an open concurrent read transaction holds or
\* reads: from its creation to its end its copy of the read buffer and the
\* store transaction it holds stay as they were, and so does every read,
\* whatever the batch transaction puts, writes back or commits meanwhile.
C11_ReaderIsolation ==
  [][\A i \in 1..Len(readers) :
       (readers[i].pc = "open" /\ readers'[i].pc = "open")
         => /\ ReaderState(heap', bolt', readers'[i]) = ReaderState(heap, bolt, readers[i])
            /\ ~bolt'.txs[readers'[i].tx].rolledBack
            /\ ViewOf(heap', bolt', readers'[i]) = ViewOf(heap, bolt, readers[i])]_vars

\* A reader with a buffer of its own is open after a commit that changed
\* the store, and a new reader would not read what it reads.
C11_Witness ==
  \E i \in 1..Len(readers) :
    /\ IsOpen(i)
    /\ readers[i].buf.bucket # 0
    /\ readers[i].tx < readTx.tx
    /\ bolt.db # bolt.txs[readers[i].tx].view
    /\ ReaderView(i) # bolt.db

\* C12: a concurrent read transaction created after a commit has completed,
\* with nothing put or deleted since, reads what is committed: every key
\* with its committed value, and no key that the batch deleted.
C12_ReaderSeesCommitted ==
  \A i \in 1..Len(readers) :
    (IsOpen(i) /\ readers[i].tx = readTx.tx /\ batchTx.pending = 0 /\ bolt.commits >= 1)
      => ReaderView(i) = bolt.db

\* C13: the writes of a batch become visible to new readers at the commit
\* and all at once: a reader reads what was committed when it was created,
\* nothing of a batch not yet committed and everything of the batches
\* committed before.
C13_VisibleAtCommit ==
  \A i \in 1..Len(readers) :
    IsOpen(i) => ReaderView(i) = bolt.txs[readers[i].tx].view

(***************************************************************************)
(* Properties of the keyIndex.                                             *)
(***************************************************************************)
\* The keyIndex is the one of put(r1), put(r2), tombstone(r3), put(r4) with
\* r1 < r2 < r3 < r4, and nothing compacted.
PutPutTombstonePut ==
  /\ Len(keyIndex.generations) = 2
  /\ Len(keyIndex.generations[1].revs) = 3
  /\ Len(keyIndex.generations[2].revs) = 1
  /\ keyIndex.generations[1].ver = 3
  /\ keyIndex.generations[1].revs[1].main < keyIndex.generations[1].revs[2].main
  /\ keyIndex.generations[1].revs[2].main < keyIndex.generations[1].revs[3].main
  /\ keyIndex.generations[1].revs[3].main < keyIndex.generations[2].revs[1].main

\* C14: on the keyIndex of put(r1), put(r2), tombstone(r3), put(r4) with
\* r1 < r2 < r3 < r4, get(atRev) returns the revision of r2 from r2 up to
\* r3, ErrRevisionNotFound from r3 up to r4, and the revision of r4 from r4
\* on.
C14_GetAcrossTombstone ==
  PutPutTombstonePut =>
    LET rev2 == keyIndex.generations[1].revs[2]
        rev3 == keyIndex.generations[1].revs[3]
        rev4 == keyIndex.generations[2].revs[1] IN
    \A atRev \in AtRevs :
      LET res == get(keyIndex, atRev) IN
      /\ (rev2.main <= atRev /\ atRev < rev3.main) => (res.err = "nil" /\ res.modified = rev2)
      /\ (rev3.main <= atRev /\ atRev < rev4.main) => res = NotFound
      /\ rev4.main <= atRev => (res.err = "nil" /\ res.modified = rev4)

\* Such a keyIndex, where a get between the tombstone and the next put has
\* found no revision.
C14_Witness ==
  /\ PutPutTombstonePut
  /\ keyIndexOp.op = "get"
  /\ keyIndex.generations[1].revs[3].main <= keyIndexOp.atRev
  /\ keyIndexOp.atRev < keyIndex.generations[2].revs[1].main
  /\ keyIndexOp.err = "ErrRevisionNotFound"

\* compact can be called on the keyIndex: it has a generation and is not
\* empty (compact panics on an empty keyIndex).
Compactable == Len(keyIndex.generations) > 0 /\ ~keyIndexIsEmpty(keyIndex)

C17_KeepAsCompact ==
  Compactable =>
    \A r \in AtRevs : \A a \in Availables(keyIndex) :
      /\ keep(keyIndex, r, a).ki = keyIndex
      /\ keep(keyIndex, r, a).available = compact(keyIndex, r, a).available

\* A keep has added a revision to the available set, on a keyIndex with a
\* tombstone at the revision kept at, which compact changes.
C17_Witness ==
  /\ Compactable
  /\ keyIndexOp.op = "keep"
  /\ keyIndexOp.available # {}
  /\ compact(keyIndex, keyIndexOp.atRev, {}).ki # keyIndex
  /\ \E i \in 1..(Len(keyIndex.generations) - 1) :
       keyIndex.generations[i].revs[Len(keyIndex.generations[i].revs)].main <= keyIndexOp.atRev

\* The revisions of a keyIndex in order of writing, each with the position
\* of its generation and whether it is the tombstone of it.
RECURSIVE taggedFrom(_, _)
taggedFrom(ki, i) ==
  IF i > Len(ki.generations) THEN <<>>
  ELSE LET g == ki.generations[i] IN
       [j \in 1..Len(g.revs) |->
          [rev |-> g.revs[j], gen |-> i,
           tomb |-> j = Len(g.revs) /\ i < Len(ki.generations)]]
         \o taggedFrom(ki, i + 1)

\* What compact is to leave of a keyIndex: the revisions above atRev and,
\* of those at or below it, the last one unless it is a tombstone; the
\* generations that keep a revision, with their version and creation, and
\* the last generation in any case.
Compacted(ki, atRev) ==
  LET all == taggedFrom(ki, 1)
      below == {n \in 1..Len(all) : all[n].rev.main <= atRev}
      last == IF below = {} THEN 0 ELSE CHOOSE n \in below : \A m \in below : m <= n
      kept(n) == all[n].rev.main > atRev \/ (n = last /\ ~all[n].tomb)
      left(i) == SelectSeq([n \in 1..Len(all) |-> [t |-> all[n], keep |-> kept(n)]],
                           LAMBDA x : x.keep /\ x.t.gen = i)
      gen(i) == [ver |-> ki.generations[i].ver,
                 created |-> ki.generations[i].created,
                 revs |-> [n \in 1..Len(left(i)) |-> left(i)[n].t.rev]]
      gens == [i \in 1..Len(ki.generations) |-> gen(i)] IN
  SelectSeq(SubSeq(gens, 1, Len(gens) - 1), LAMBDA g : Len(g.revs) > 0)
    \o <<gens[Len(gens)]>>

\* put(1.0); put(2.0); tombstone(3.0); put(4.0); tombstone(5.0).
ExampleKeyIndex ==
  tombstone(keyIndexPut(tombstone(keyIndexPut(keyIndexPut(NewKeyIndex, 1, 0), 2, 0), 3, 0).ki, 4, 0), 5, 0).ki

Rev(main) == [main |-> main, sub |-> 0]

\* C18: compact(atRev) removes every revision with main at most atRev but
\* the last of them, removes that one too when it is a tombstone, removes
\* every generation left without a revision and leaves the single empty
\* generation when nothing is left; on {1.0, 2.0, 3.0(t)}, {4.0, 5.0(t)},
\* {empty}, compact(2) leaves {2.0, 3.0(t)}, {4.0, 5.0(t)}, {empty},
\* compact(4) leaves {4.0, 5.0(t)}, {empty} and compact(5) leaves {empty}.
C18_CompactRemoves ==
  /\ Compactable =>
       \A atRev \in AtRevs : \A a \in Availables(keyIndex) :
         LET c == compact(keyIndex, atRev, a).ki IN
         /\ c.generations = Compacted(keyIndex, atRev)
         /\ c.modified = keyIndex.modified
         /\ revisionsOf(c) = {} => keyIndexIsEmpty(c)
  /\ compact(ExampleKeyIndex, 2, {}).ki.generations =
       <<[ver |-> 3, created |-> Rev(1), revs |-> <<Rev(2), Rev(3)>>],
         [ver |-> 2, created |-> Rev(4), revs |-> <<Rev(4), Rev(5)>>],
         NoGeneration>>
  /\ compact(ExampleKeyIndex, 4, {}).ki.generations =
       <<[ver |-> 2, created |-> Rev(4), revs |-> <<Rev(4), Rev(5)>>], NoGeneration>>
  /\ compact(ExampleKeyIndex, 5, {}).ki.generations = <<NoGeneration>>

\* The keyIndex of the example after compact(4).
C18_Witness ==
  /\ keyIndexOp.op = "compact" /\ keyIndexOp.atRev = 4
  /\ keyIndexCount = 5
  /\ keyIndex = compact(ExampleKeyIndex, 4, {}).ki

(***************************************************************************)
(* Properties of restore and of stableTo.                                  *)
(***************************************************************************)
\* The snapshots handed to restore: an index and a term.
RestoreSnapshots == {Entry(i, t) : i \in 1..MaxIndex, t \in 1..MaxTerm}

\* The log holds s as its pending snapshot with no unstable entry, its
\* unstable offset at s.index + 1 and committed at s.index.
RestoredTo(l, s) ==
  /\ l.unstable.snapshot = <<s>>
  /\ l.unstable.entries = <<>>
  /\ l.unstable.offset = s.Index + 1
  /\ l.committed = s.Index

\* C19 as stated: restore(s) holds s as the pending snapshot, clears the
\* unstable entries, sets the unstable offset to s.index + 1 and sets both
\* committed and applied to s.index.
C19_RestoreResetsApplied ==
  [][\A s \in RestoreSnapshots :
       raftLog' = restore(raftLog, s)
         => (RestoredTo(raftLog', s) /\ raftLog'.applied = s.Index)]_vars

\* C19: restore(s) holds s as the pending snapshot, clears the unstable
\* entries, sets the unstable offset to s.index + 1 and sets committed to
\* s.index; applied and the storage stay as they were.
C19_RestoreSetsCommitted ==
  [][\A s \in RestoreSnapshots :
       raftLog' = restore(raftLog, s)
         => /\ RestoredTo(raftLog', s)
            /\ raftLog'.applied = raftLog.applied
            /\ raftLog'.storage = raftLog.storage]_vars

\* A restore has acted on a log that had applied entries: the snapshot is
\* pending, committed is at its index and applied is not.
C19_Witness ==
  /\ raftLog.unstable.snapshot # <<>>
  /\ RestoredTo(raftLog, raftLog.unstable.snapshot[1])
  /\ raftLog.applied >= 1
  /\ raftLog.applied < raftLog.committed

\* The unstable tail u holds an entry at index i, and its term is t.
HasUnstableEntry(u, i, t) ==
  /\ i >= u.offset
  /\ i <= u.offset + Len(u.entries) - 1
  /\ u.entries[i - u.offset + 1].Term = t

\* C20: unstable.stableTo(i, t) drops the entries with index at most i, and
\* no other, and sets offset to i + 1 when the unstable tail holds an entry
\* at i with term t, and leaves the pending snapshot; in every other case
\* (another term, i below offset, i above the last unstable index) it
\* leaves offset, entries and pending snapshot as they are.
C20_StableToFrame ==
  \A i \in 0..(MaxIndex + 1), t \in 0..MaxTerm :
    LET u == raftLog.unstable
        r == unstableStableTo(u, i, t) IN
    IF HasUnstableEntry(u, i, t)
    THEN /\ r.entries = SelectSeq(u.entries, LAMBDA e : e.Index > i)
         /\ r.offset = i + 1
         /\ r.snapshot = u.snapshot
    ELSE r = u

\* A stableTo has moved the offset of a tail that still holds two entries,
\* so that a stableTo at the first of them drops one and keeps the other,
\* and one with another term drops none.
C20_Witness ==
  LET u == raftLog.unstable IN
  /\ u.snapshot = <<>>
  /\ u.offset >= 2
  /\ Len(u.entries) >= 2
  /\ firstIndex(raftLog) = 1
  /\ unstableStableTo(u, u.offset, u.entries[1].Term).entries = Tail(u.entries)
  /\ unstableStableTo(u, u.offset, 0) = u

(***************************************************************************)
(* Properties of truncateAndAppend, of slice and of the storage's reads.   *)
(***************************************************************************)
\* The entries handed to truncateAndAppend: consecutive, at least one.
AppendedEnts ==
  {Ents(a, ts) : a \in 1..(MaxIndex + 1), ts \in TermSeqs \ {<<>>}}

\* entries[k] has log position offset + k, counting k from 0.
Contiguous(u) ==
  \A k \in 1..Len(u.entries) : u.entries[k].Index = u.offset + k - 1

\* C21: truncateAndAppend(ents) with first index a extends the tail when
\* a = offset + len(entries), replaces the entries by ents and sets offset to
\* a when a <= offset, and otherwise (offset < a < offset + len(entries))
\* keeps exactly the entries with index below a and appends ents; afterwards
\* entries[k].Index = offset + k for all k and the last unstable index is the
\* index of the last entry of ents.  With a beyond offset + len(entries) the
\* call panics in unstable.slice, and only then.
C21_TruncateAndAppend ==
  \A ents \in AppendedEnts :
    LET u == raftLog.unstable
        a == ents[1].Index
        r == truncateAndAppend(u, ents) IN
    /\ r.panic <=> a > u.offset + Len(u.entries)
    /\ ~r.panic =>
         /\ a = u.offset + Len(u.entries) =>
              r.u.entries = u.entries \o ents /\ r.u.offset = u.offset
         /\ (a <= u.offset /\ a # u.offset + Len(u.entries)) =>
              r.u.entries = ents /\ r.u.offset = a
         /\ (u.offset < a /\ a < u.offset + Len(u.entries)) =>
              /\ r.u.entries = SelectSeq(u.entries, LAMBDA e : e.Index < a) \o ents
              /\ r.u.offset = u.offset
         /\ r.u.snapshot = u.snapshot
         /\ Contiguous(r.u)
         /\ maybeLastIndex(r.u) = [i |-> ents[Len(ents)].Index, ok |-> TRUE]

\* The tail holds two entries that truncateAndAppend put there and starts
\* above index 1: an append at its second entry truncates, one below its
\* offset replaces, and one after its last entry extends.
C21_Witness ==
  LET u == raftLog.unstable IN
  /\ u.offset >= 2
  /\ Len(u.entries) >= 2
  /\ Contiguous(u)
  /\ truncateAndAppend(u, Ents(u.offset + 1, <<1>>)).u.entries
       = <<u.entries[1], Entry(u.offset + 1, 1)>>
  /\ truncateAndAppend(u, Ents(1, <<1>>)).u.offset = 1

(***************************************************************************)
(* Properties of the raftNode: what is published has been saved.           *)
(***************************************************************************)
\* The WAL holds an Entry record of the entry e in a whole frame.
InWAL(e) ==
  \E f \in 1..Len(disk) : \E k \in 1..Len(disk[f].frames) :
    LET rec == disk[f].frames[k].rec IN
    rec.type = "entry" /\ MustUnmarshal(rec.data) = e

\* Every Save of the node so far has written its records.
SavesSucceeded == ~node.saveErr

\* C22: every entry that nextEnts handed out as CommittedEntries and that the
\* node has published to the commit channel has been written to the WAL by
\* Save before.
C22_PublishedPersisted ==
  \A k \in 1..Len(node.commitC) : InWAL(node.commitC[k])

\* The same for the entries published in a Ready whose Save returned no
\* error: they are in the WAL when they are published.
C22_PublishedPersistedAfterSave ==
  [][(node.pc = "publish" /\ node'.pc = "advance" /\ SavesSucceeded)
       => \A k \in (Len(node.commitC) + 1)..Len(node'.commitC) :
            InWAL(node'.commitC[k])]_vars

\* nextEnts hands out entries that are not saved yet: the entries to apply
\* of a Ready just taken are in the WAL.
C22_ReturnedPersisted ==
  node.pc = "save" =>
    \A k \in 1..Len(node.rd.CommittedEntries) : InWAL(node.rd.CommittedEntries[k])

\* The bounds handed to slice and to Entries.
SliceBounds == 0..(MaxIndex + 2)

\* The stable storage holds the entries of the log below unstable.offset,
\* and the unstable tail those from unstable.offset to lastIndex.
StorageCovers(l) ==
  /\ l.unstable.offset > firstIndex(l) =>
       /\ msFirstIndex(l.storage) <= firstIndex(l)
       /\ msLastIndex(l.storage) >= l.unstable.offset - 1
  /\ lastIndex(l) = l.unstable.offset + Len(l.unstable.entries) - 1

\* The entries lo..hi-1 of the log: those below unstable.offset as the
\* storage holds them, the others as the unstable tail does.
EntriesOfLog(l, lo, hi) ==
  [k \in 1..(hi - lo) |->
     LET i == lo + k - 1 IN
     IF i < l.unstable.offset
     THEN l.storage.ents[i - l.storage.ents[1].Index + 1]
     ELSE l.unstable.entries[i - l.unstable.offset + 1]]

C24_CompactedAtFirstIndex ==
  \A hi \in SliceBounds :
    LET ms == raftLog.storage IN
    hi >= msFirstIndex(ms) => msEntries(ms, msFirstIndex(ms), hi).err = "ErrCompacted"

\* C24: Entries(lo, hi) of the storage returns ErrCompacted when lo is at
\* most the index of the dummy entry, firstIndex - 1; with lo = firstIndex
\* and hi <= lastIndex + 1 it returns the entries firstIndex..hi-1, or
\* ErrUnavailable when the storage holds the dummy entry only, and with
\* hi > lastIndex + 1 it panics.
C24_CompactedBelowFirstIndex ==
  \A lo \in SliceBounds, hi \in SliceBounds :
    LET ms == raftLog.storage
        fi == msFirstIndex(ms)
        r == msEntries(ms, lo, hi) IN
    lo <= hi =>
      /\ lo < fi => (r.err = "ErrCompacted" /\ ~r.panic /\ r.ents = <<>>)
      /\ (lo = fi /\ hi > msLastIndex(ms) + 1) => r.panic
      /\ (lo = fi /\ hi <= msLastIndex(ms) + 1) =>
           /\ ~r.panic
           /\ IF Len(ms.ents) = 1 THEN r.err = "ErrUnavailable" /\ r.ents = <<>>
              ELSE /\ r.err = "nil"
                   /\ Len(r.ents) = hi - lo
                   /\ \A k \in 1..Len(r.ents) :
                        r.ents[k].Index = lo + k - 1 /\ r.ents[k] = ms.ents[k + 1]

\* The storage is compacted and holds two entries: Entries from firstIndex
\* returns both, and Entries from the index of the dummy entry fails.
C24_Witness ==
  LET ms == raftLog.storage
      fi == msFirstIndex(ms) IN
  /\ fi >= 2
  /\ Len(ms.ents) = 3
  /\ msEntries(ms, fi, fi + 2).ents = Tail(ms.ents)
  /\ msEntries(ms, fi - 1, fi + 2).err = "ErrCompacted"

\* C25 as stated: CreateSnapshot(i) on the storage succeeds for every i with
\* snapshot.index < i <= lastIndex and returns the snapshot of index i with
\* the term of the stored entry at i, fails with ErrSnapOutOfDate for
\* i <= snapshot.index, and panics for i > lastIndex.
C25_CreateSnapshot ==
  \A i \in SliceBounds :
    LET ms == raftLog.storage
        r == msCreateSnapshot(ms, i) IN
    /\ i <= ms.snapshot.Index => (r.err = "ErrSnapOutOfDate" /\ ~r.panic)
    /\ (i > ms.snapshot.Index /\ i > msLastIndex(ms)) => r.panic
    /\ (i > ms.snapshot.Index /\ i <= msLastIndex(ms)) =>
         /\ ~r.panic
         /\ r.err = "nil"
         /\ r.snap = Entry(i, msTerm(ms, i).t)

(***************************************************************************)
(* Properties of WAL.Save: the State record and the sync.                  *)
(***************************************************************************)
\* The step is the call Save(st, ents) on the open WAL.
IsSave(st, ents) ==
  /\ wal.status = "ready"
  /\ ~(IsEmptyHardState(st) /\ ents = <<>>)
  /\ wal' = Save(wal, disk, st, ents).w
  /\ disk' = Save(wal, disk, st, ents).files
  /\ saved' = saved \o Logical(st, ents)
  /\ walCount'.ops = walCount.ops + 1

\* The frames that the step has added to the segment that was the tail.
AddedFrames ==
  SubSeq(disk'[Len(disk)].frames, Len(disk[Len(disk)].frames) + 1,
         Len(disk'[Len(disk)].frames))

\* The State records among the frames frs, as the states they hold.
StatesOf(frs) ==
  LET ss == SelectSeq(frs, LAMBDA fr : fr.rec.type = "state") IN
  [k \in 1..Len(ss) |-> MustUnmarshal(ss[k].rec.data)]

\* C26 as stated: Save(st, ents) encodes a State record exactly when st is
\* not empty and differs from the state of the WAL.
C26_StateRecordWhenChanged ==
  [][\A st \in HardStates, ents \in WalEnts(wal.enti) :
       IsSave(st, ents) =>
         StatesOf(AddedFrames) =
           (IF ~IsEmptyHardState(st) /\ st # wal.state THEN <<st>> ELSE <<>>)]_vars

\* C26: Save(st, ents) encodes a State record, after the Entry records,
\* exactly when st is not empty, also when st equals the state last saved,
\* and then keeps st as the state of the WAL.
C26_StateRecordWhenNonEmpty ==
  [][\A st \in HardStates, ents \in WalEnts(wal.enti) :
       IsSave(st, ents) =>
         /\ StatesOf(AddedFrames) = (IF ~IsEmptyHardState(st) THEN <<st>> ELSE <<>>)
         /\ wal'.state = (IF ~IsEmptyHardState(st) THEN st ELSE wal.state)
         /\ Len(AddedFrames) = Len(ents) + Len(StatesOf(AddedFrames))
         /\ \A k \in 1..Len(ents) :
              AddedFrames[k].rec.type = "entry"
                /\ MustUnmarshal(AddedFrames[k].rec.data) = ents[k]]_vars

\* Two Saves with the same state have acted: the first segment holds two
\* State records of the state of the WAL.
C26_Witness ==
  /\ wal.status = "ready"
  /\ walCount.ops = 2
  /\ ~IsEmptyHardState(wal.state)
  /\ StatesOf(disk[1].frames) = <<wal.state, wal.state>>

\* Every frame of every segment has been flushed and fsynced.
AllSynced(files) ==
  \A f \in 1..Len(files) : files[f].synced = Len(files[f].frames)

HoldsTx(i) == i \in 1..Len(readers) /\ readers[i].pc # "done"

\* C28: the store read-only transaction of a concurrent reader that has not
\* ended is not rolled back, and the step that rolls a store transaction
\* back is taken when no reader that took a hold on it is left, whatever
\* the order of ConcurrentReadTx, RUnlock and the commits.
C28_NoRollbackUnderReader ==
  [][\A tx \in 1..Len(bolt.txs) :
       (~bolt.txs[tx].rolledBack /\ bolt'.txs[tx].rolledBack)
         => /\ \A i \in 1..Len(readers) : HoldsTx(i) => readers[i].tx # tx
            /\ \A i \in 1..Len(readers') : readers'[i].pc # "done" => readers'[i].tx # tx]_vars

\* One store transaction was rolled back after its reader ended, and the
\* rollback of another waits for a reader that is still open.
C28_Witness ==
  \E tx1, tx2 \in 1..Len(bolt.txs) :
    /\ bolt.txs[tx1].rolledBack
    /\ bolt.txs[tx2].closing /\ ~bolt.txs[tx2].rolledBack
    /\ \E i \in 1..Len(readers) : readers[i].pc = "open" /\ readers[i].tx = tx2
    /\ \E i \in 1..Len(readers) : readers[i].pc = "done"

\* The step is an unsafeCommit of a read transaction that has a store
\* transaction: the goroutine that will roll that transaction back starts.
IsUnsafeCommit ==
  /\ readTx.tx # 0
  /\ ~bolt.txs[readTx.tx].closing
  /\ bolt'.txs[readTx.tx].closing

LockRank(l) == CASE l = "batchTx" -> 1 [] l = "mu" -> 2 [] l = "readTx" -> 3 [] OTHER -> 4

\* What the thread th holds of the three locks of the lock ordering.
HeldOrdered(th) == SelectSeq(Held(th), LAMBDA e : e.l # "cache")

\* C30 as stated: a thread that holds more than one of the lock of the
\* batch transaction, backend.mu and the lock of the read transaction has
\* locked them in the order batch transaction, backend.mu, read
\* transaction, and only a defrag holds the three.
C30_LockOrderAsStated ==
  \A i \in Threads :
    LET h == HeldOrdered(threads[i]) IN
    /\ \A j, k \in 1..Len(h) : j < k => LockRank(h[j].l) < LockRank(h[k].l)
    /\ Len(h) = 3 => threads[i].op = "defrag"

\* C30: a thread that holds more than one of the three locks has locked
\* the batch transaction first; backend.mu is locked for writing by defrag
\* only, before the read transaction, and defrag alone holds the three
\* locked for writing; a commit, with the batch transaction and the read
\* transaction locked, read-locks backend.mu in begin, so that it holds
\* the three too, backend.mu last.
C30_BatchTxLockFirst ==
  \A i \in Threads :
    LET th == threads[i]
        h == HeldOrdered(th) IN
    /\ Len(h) > 1 => h[1] = DoLock("batchTx")
    /\ Holds(th, "mu", "Lock") => th.op = "defrag"
    /\ th.op = "defrag" => \A j, k \in 1..Len(h) : j < k => LockRank(h[j].l) < LockRank(h[k].l)
    /\ (Len(h) = 3 /\ th.op # "defrag")
         => /\ th.op \in {"Commit", "UnlockCommit", "Snapshot"}
            /\ h = <<DoLock("batchTx"), DoLock("readTx"), DoRLock("mu")>>

\* A defrag holds the three locks while a commit and a reader wait.
C30_Witness ==
  \E i, j, k \in Threads :
    /\ threads[i].op = "defrag"
    /\ Held(threads[i]) = <<DoLock("batchTx"), DoLock("mu"), DoLock("readTx")>>
    /\ threads[j].op = "Commit" /\ threads[j].pc = 0
    /\ threads[k].op = "ConcurrentReadTx" /\ threads[k].pc = 0

\* C31: in every state of the keyIndex that put, tombstone and compact
\* calls that return reach, the revisions of a generation grow strictly,
\* every revision of a generation is smaller than every revision of a
\* later generation, and no generation but the last is empty.
C31_GenerationsOrdered ==
  LET gs == keyIndex.generations IN
  /\ \A i \in 1..Len(gs) : \A j, k \in 1..Len(gs[i].revs) :
       j < k => GreaterThan(gs[i].revs[k], gs[i].revs[j])
  /\ \A i, i2 \in 1..Len(gs) : \A j \in 1..Len(gs[i].revs), k \in 1..Len(gs[i2].revs) :
       i < i2 => GreaterThan(gs[i2].revs[k], gs[i].revs[j])
  /\ \A i \in 1..(Len(gs) - 1) : ~generationIsEmpty(gs[i])

\* After a compact the keyIndex has two generations that a tombstone ended,
\* the first of more than one revision, and an empty last one.
C31_Witness ==
  LET gs == keyIndex.generations IN
  /\ keyIndexOp.op = "compact"
  /\ Len(gs) = 3
  /\ Len(gs[1].revs) > 1 /\ Len(gs[2].revs) > 1
  /\ generationIsEmpty(gs[3])

\* The step is the return of batchTxBuffered.Unlock.
UnlockReturns == batchTx.pc \in {"locked", "commit"} /\ batchTx'.pc = "unlocked"

\* C32: when Unlock returns, fewer than batchLimit mutations are pending
\* and no delete is; when the pending mutations had reached batchLimit or
\* a delete was pending, Unlock has committed: the store holds what the
\* writing transaction held and nothing is pending.
C32_UnlockCommits ==
  [][UnlockReturns
       => /\ batchTx'.pending < batchLimit
          /\ batchTx'.pendingDeleteOperations = 0
          /\ (batchTx.pending >= batchLimit \/ batchTx.pendingDeleteOperations > 0)
               => /\ bolt'.db = batchTx.tx
                  /\ bolt'.commits = bolt.commits + 1
                  /\ batchTx'.pending = 0]_vars

\* Unlock has returned after a single delete, with one commit made.
C32_Witness ==
  /\ batchTx.pc = "unlocked"
  /\ beOps = 1
  /\ bolt.commits = 1
  /\ bolt.db = EmptyView
  /\ batchTx.pending = 0

\* C33: after the writeback of an Unlock the bucket of the shared read
\* buffer holds its keys in ascending order with no key twice, and every
\* key with the value written last for it, which is the value that the
\* writing transaction holds for a key not deleted since.
C33_ReadBufferSorted ==
  (readTx.buf.bucket # 0 /\ batchTx.pc # "locked")
    => LET bb == heap[readTx.buf.bucket] IN
       /\ \A i \in 0..(bb.used - 2) : bufAt(bb, i).key < bufAt(bb, i + 1).key
       /\ \A i \in 0..(bb.used - 1) :
            batchTx.tx[bufAt(bb, i).key] \in {0, bufAt(bb, i).val}

\* The new segment is in the directory under its final name: as the process
\* sees it, or on the disk after a crash.
FinalNamed ==
  \/ cutting.pc \notin {"idle", "crashed"} /\ cutting.renamed
  \/ cutting.pc = "crashed" /\ cutting.finalName

\* The frames of the new segment that are on the disk for good.
SyncedHeader == SubSeq(cutting.tmp[1].frames, 1, cutting.tmp[1].synced)

\* The new segment as cut leaves it when it runs to its end.
CutSegment ==
  tail(cut([cutting.w EXCEPT !.crc = cutting.prevCrc], <<cutting.old>>).files)

\* C34 as stated: the new segment has its final name only with a CRC record
\* of the running CRC of the segment before, a metadata record and a state
\* record written and synced, and the directory is synced after the
\* rename.
C34_FinalNameAfterHeaderWithState ==
  /\ FinalNamed
       => /\ Len(SyncedHeader) = 3
          /\ SyncedHeader[1].rec.type = "crc" /\ SyncedHeader[1].rec.crc = cutting.prevCrc
          /\ SyncedHeader[2].rec.type = "metadata"
          /\ SyncedHeader[3].rec.type = "state"
  /\ cutting.pc = "done" => cutting.renamed /\ cutting.dirSynced

\* C34: the new segment has its final name, in the process or on the disk
\* after a crash at any step of cut, only with its header written and
\* synced: a CRC record of the running CRC of the segment before, the
\* metadata record and, when the state of the WAL is not empty, the state
\* record, which are the frames that a cut run to its end leaves; and cut
\* ends with the directory synced after the rename.
C34_FinalNameAfterSyncedHeader ==
  /\ FinalNamed
       => /\ SyncedHeader = CutSegment.frames
          /\ SyncedHeader[1].rec.type = "crc" /\ SyncedHeader[1].rec.crc = cutting.prevCrc
          /\ SyncedHeader[2].rec = [type |-> "metadata", data |-> cutting.w.metadata,
                                    crc |-> crcWrite(cutting.prevCrc, cutting.w.metadata)]
          /\ IF IsEmptyHardState(cutting.w.state) THEN Len(SyncedHeader) = 2
             ELSE /\ Len(SyncedHeader) = 3
                  /\ SyncedHeader[3].rec.type = "state"
                  /\ MustUnmarshal(SyncedHeader[3].rec.data) = cutting.w.state
  /\ cutting.pc = "done" => cutting.renamed /\ cutting.dirSynced

\* The process died after the rename and before the sync of the directory,
\* and the disk has the new segment under its final name, with a state
\* record in its header.
C34_Witness ==
  /\ cutting.pc = "crashed"
  /\ cutting.renamed /\ ~cutting.dirSynced
  /\ cutting.finalName
  /\ Len(cutting.tmp[1].frames) = 3

\* run has left its loop for good: it has sent the error of alloc and has
\* only its return left, or it has returned and closed errc.
RunTerminated == fp.run \in {"failed", "done"}

\* What Close leaves when it has returned: run has left its loop, it holds
\* no file, and the directory has no temporary file but the one that a
\* failed Preallocate left.
ClosedPipeline ==
  /\ RunTerminated
  /\ fp.pending = <<>>
  /\ fp.onDisk # {} => fp.allocErr = "Preallocate"
  /\ fp.closeErr = (IF fp.errc = <<>> /\ \E i \in 1..Len(fp.opened) : fp.opened[i].err = fp.allocErr
                    THEN "nil" ELSE fp.allocErr)

C37_OpenFileOrError ==
  \A i \in 1..Len(fp.opened) :
    \/ fp.opened[i].f # "nil" /\ fp.opened[i].err = "nil"
    \/ fp.opened[i].f = "nil" /\ fp.opened[i].err # "nil"

\* The indexes and terms that findConflictByTerm is called with.
ConflictIndexes == 0..(MaxIndex + 1)

ConflictTerms == 0..MaxTerm

\* The indexes from lo to index whose term is at most t, or that term()
\* gives an error for.
AtMostTerm(l, lo, index, t) ==
  {i \in lo..index : term(l, i).t <= t \/ term(l, i).err # "nil"}

BufferContents(h, buf) ==
  IF buf.bucket = 0 THEN <<>> ELSE SubSeq(h[buf.bucket].buf, 1, h[buf.bucket].used)

\* The step is a ConcurrentReadTx that takes the cached copy of the read
\* buffer, the version of the cache being that of the read buffer.
ReusesCache ==
  /\ Len(readers') = Len(readers) + 1
  /\ txReadBufferCache.buf # <<>>
  /\ txReadBufferCache.bufVersion = readTx.buf.bufVersion

\* C38: a ConcurrentReadTx that takes the cached copy because the versions
\* are equal gets what the shared read buffer holds.
C38_CacheEqualsReadBuffer ==
  [][ReusesCache
       => BufferContents(heap', readers'[Len(readers')].buf)
            = BufferContents(heap, readTx.buf)]_vars

(***************************************************************************)
(* One maybeAppend call with any (index, logTerm), as a message of any     *)
(* sender may carry them: logTerm 0 with an index above 0 included.        *)
(***************************************************************************)
CallMaybeAppendAny ==
  /\ logOp = NoOp
  /\ \E index \in 0..(CallLen + 1), logTerm \in 0..MaxTerm, c \in 0..(CallLen + 1),
        ts \in CallTermSeqs :
       LET ents == Ents(index + 1, ts)
           r == maybeAppend(raftLog, index, logTerm, c, ents) IN
       /\ raftLog' = r.l
       /\ logOp' = [op |-> "maybeAppend", pre |-> raftLog, index |-> index,
                    logTerm |-> logTerm, committed |-> c, ents |-> ents,
                    ret |-> r.ret, ok |-> r.ok, panic |-> r.panic]
  /\ UNCHANGED <<walVars, backendVars, keyIndexVars, nodeVars, lockVars, cutVars, fpVars>>

CallAnyNext == CallMaybeAppendAny

SpecCallAny == CallInit /\ [][CallAnyNext]_vars

\* The call made had no entry at index to compare with: index > lastIndex.
NoEntryAtPrev ==
  /\ logOp # NoOp
  /\ logOp.op = "maybeAppend"
  /\ logOp.index > lastIndex(logOp.pre)

\* C39: maybeAppend with an index beyond the last index returns (0, false)
\* and leaves the log, committed and applied as they were, whatever logTerm.
C39_RejectsBeyondLastIndex ==
  NoEntryAtPrev =>
    /\ logOp.ret = 0 /\ ~logOp.ok /\ ~logOp.panic
    /\ raftLog = logOp.pre

\* The thread j keeps the thread i from its next call: i is about to Lock
\* what j holds in any mode, or to RLock what j holds locked or what
\* another thread j has a pending Lock on.
Blocks(j, i) ==
  /\ threads[i].op # "none"
  /\ threads[j].op # "none"
  /\ LET s == nextCall(threads[i]) IN
     \/ /\ s.a = "Lock"
        /\ Holds(threads[j], s.l, "Lock") \/ Holds(threads[j], s.l, "RLock")
     \/ /\ s.a = "RLock"
        /\ \/ Holds(threads[j], s.l, "Lock")
           \/ j # i /\ threads[j].waiting /\ nextCall(threads[j]).l = s.l

\* The thread i runs a call and no thread keeps it from its next call.
CanStep(i) ==
  /\ threads[i].op # "none"
  /\ \A j \in Threads : ~Blocks(j, i)

\* Every thread of S runs a call and is kept from its next call by threads
\* of S only: none of them gets on whatever the other threads do.
Deadlocked(S) ==
  \A i \in S :
    /\ \E j \in S : Blocks(j, i)
    /\ \A j \in Threads \ S : ~Blocks(j, i)

\* C40: no threads of the backend wait for locks that only they
\* themselves hold: in every state, every group of threads has a member
\* that is idle, can go on, or waits for a thread outside the group.
C40_NoDeadlock ==
  \A S \in SUBSET Threads : S # {} => ~Deadlocked(S)

\* A thread waits for a lock of a second one, which waits for a lock of a
\* third one, which can go on.
C40_Witness ==
  \E i, j, k \in Threads :
    /\ i # j /\ j # k /\ i # k
    /\ Blocks(j, i) /\ Blocks(k, j) /\ CanStep(k)

====
